---- MODULE Spec2Model ----
(***************************************************************************)
(* Model of the channel adapter lifecycle (BaseAdapter, QQAdapter) and of  *)
(* the QQ WebSocket gateway client (QQGateway) of openclaw-message-bot.    *)
(*                                                                         *)
(* JavaScript runs every callback to its next await without interleaving,  *)
(* so an action is one callback (timer, socket event, promise completion)  *)
(* or one public call up to its first suspension point.                    *)
(***************************************************************************)
EXTENDS Integers, Sequences, FiniteSets, TLC

(* ------------------------------ bounds -------------------------------- *)
MaxGw == 2          \* gateway objects one adapter constructs
MaxSock == 2        \* sockets one gateway object creates
RunSock == 3        \* the same, of a gateway that is never stopped
MaxTimers == 1      \* reconnect timers pending at once on one gateway
RunTimers == 2      \* the same, of a gateway that is never stopped
MaxConns == 2       \* connect() calls suspended at once on one gateway
MaxAttempts == 2    \* cap of the reconnect-attempt counter
MaxSeq == 1         \* largest sequence number a frame carries
MaxCalls == 2       \* adapter calls of one kind suspended at once
MaxFaults == 2      \* failures injected into a run that must recover
MaxOut == 2         \* messages one adapter sends
MaxHandlers == 3    \* message handlers registered on one adapter
MaxMsgs == 2        \* inbound messages one adapter dispatches
MaxChans == 2       \* channels the manager knows (registered or configured)
MaxTicks == 6       \* clock ticks of the token-cache run
MaxFetches == 2     \* token exchanges outstanding at once on one client
MaxExchanges == 3   \* token exchanges one client issues in a run
MaxOps == 3         \* startAll / stopAll calls made on one manager
MaxRegs == 2        \* adapter objects with one id, and registrations of an id
MaxIds == 2         \* sender ids and chat ids of platform events
MaxDelivered == 1   \* InboundMessages a platform adapter builds in a run
FrameAttempts == 1  \* consecutive reconnects in the runs with message frames
FrameSock == 1      \* sockets in the runs with message frames
FrameTimers == 1    \* pending reconnect timers in the runs with message frames
FrameConns == 1     \* connect() calls in flight in the runs with message frames
\* the caps, for each gateway, of the runs with overlapping start() calls
OverlapAttempts == 1
OverlapSock == 2
OverlapTimers == 1
OverlapConns == 1
\* the caps of the specification that follows the backoff schedule to its end
BackoffAttempts == 6
BackoffSock == 1
BackoffTimers == 1
BackoffConns == 1

(* --------------------------- program constants ------------------------ *)
\* gateway.ts:13
RECONNECT_DELAYS == <<1000, 2000, 5000, 10000, 30000>>

Null == 0           \* a null reference (socket, session id, gateway)
NoSeq == 0 - 1      \* lastSeq = null, or a frame without an s field
NoError == "null"   \* status.lastError = null

Gws == 1 .. MaxGw
Origins == {"start", "adapter", "timer", "stale"}
Live == {"connecting", "open"}

VARIABLES
  gw,        \* gw[g]: the fields of gateway object g
  socks,     \* socks[g]: the sockets gateway g created, in creation order
  timers,    \* timers[g]: pending setTimeout reconnect timers of gateway g
  conns,     \* conns[g][o]: connect() calls of origin o awaiting getGatewayUrl
  hellos,    \* hellos[g]: handleHello calls awaiting getAccessToken
  intervals, \* intervals[g]: live setInterval heartbeat timers of gateway g
  status,    \* BaseAdapter._status
  config,    \* BaseAdapter.config (Null or a config)
  adGateway, \* QQAdapter.gateway (Null or a gateway object)
  nGw,       \* gateway objects constructed so far
  calls,     \* abstract adapter: suspended doStart / doStop calls
  ret,       \* the outcome of the last adapter call that returned
  lim,       \* the caps of this run and the failures still to come
  ev,        \* the handler that ran last, on which gateway object, the
             \* s field of the frame it handled (the d of the frame it sent,
             \* for a heartbeat),
             \* and in d the platform event or op 0 frame it was handed
  api,       \* one API client: its token cache, the clock, its requests
  disp,      \* messageHandlers and the dispatchMessage calls in progress
  mgr        \* the ChannelManager, its adapters and the channel configs

vars == <<gw, socks, timers, conns, hellos, intervals, status, config,
          adGateway, nGw, calls, ret, lim, ev, api, disp, mgr>>

gwVars == <<gw, socks, timers, conns, hellos, intervals>>
adVars == <<config, adGateway, nGw, calls, ret>>
coreVars == <<api, disp, mgr>>

Min(a, b) == IF a < b THEN a ELSE b

\* gateway.ts:28-33, the field initialisers of QQGateway
NewGateway ==
  [isRunning |-> FALSE, ws |-> Null, heartbeatInterval |-> FALSE,
   reconnectAttempts |-> 0, sessionId |-> Null, lastSeq |-> NoSeq,
   wired |-> FALSE]

\* adapter.ts (base) 48-57, the initial _status
NewStatus ==
  [running |-> FALSE, connected |-> FALSE, lastConnectedAt |-> FALSE,
   lastError |-> NoError, inbound |-> 0, outbound |-> 0]

\* qq/adapter.ts:252 (QQApi), part_002:28 (FeishuApi): tokenCache = null
NoCache == [token |-> Null, expiresAt |-> 0]

\* an API client as constructed (qq/adapter.ts:250-257), at clock 0:
\* fetches are the token exchanges awaiting their response, exchanges those
\* issued so far, issued the tokens the server handed out, resp the
\* expires_in of its last response, last the outcome of the getAccessToken
\* call that returned last
NewApi ==
  [tokenCache |-> NoCache, now |-> 0, fetches |-> 0, exchanges |-> 0,
   issued |-> 0, resp |-> 0, last |-> [token |-> Null, from |-> "none"]]

\* base/adapter.ts:45, messageHandlers = []: n handlers are registered;
\* log[h] is what handler h was invoked with, in order; run holds the
\* dispatchMessage calls suspended at `await handler(message)`, each with
\* its message and the handler it waits for; msgs counts the messages
\* dispatched, at[m] the handlers registered when message m was dispatched,
\* done the dispatchMessage calls that resolved, caught the errors logged.
\* access holds the access-control fields of the stored config, delivered
\* the InboundMessages the adapter built and dispatched, in order
Undefined == [defined |-> FALSE, items |-> <<>>]

NoAccess ==
  [dmPolicy |-> "undefined", groupPolicy |-> "undefined",
   allowFrom |-> Undefined, groupAllowFrom |-> Undefined,
   requireMention |-> "undefined"]

NewDisp ==
  [n |-> 0, log |-> [h \in 1 .. MaxHandlers |-> <<>>], run |-> {},
   msgs |-> 0, at |-> [m \in 1 .. MaxMsgs |-> 0], done |-> 0, caught |-> 0,
   access |-> NoAccess, delivered |-> <<>>]

Chans == 1 .. MaxChans

\* what the config manager holds for a channel id: no key, a key without a
\* value, enabled: false, a config validateConfig refuses, one it accepts
ConfigKinds == {"absent", "null", "disabled", "invalid", "valid"}

NoConns == [o \in Origins |-> 0]
NConns(g) == conns[g]["start"] + conns[g]["adapter"] + conns[g]["timer"]
             + conns[g]["stale"]

\* a socket as `new WebSocket(url)` returns it, with what the server has
\* done on it: hello (op 10 sent), ident (Identify received), ready (READY sent)
NewSocket ==
  [st |-> "connecting", hello |-> FALSE, ident |-> FALSE, ready |-> FALSE]

RemoveAt(s, i) == [j \in 1 .. (Len(s) - 1) |-> IF j < i THEN s[j] ELSE s[j + 1]]

(* ------------------------ QQGateway: helpers -------------------------- *)

\* the index capped one entry early
ReconnectDelayCapEarly(n) ==
  RECONNECT_DELAYS[Min(n, Len(RECONNECT_DELAYS) - 2) + 1]

\* gateway.ts:374-376
ReconnectDelay(n) == RECONNECT_DELAYS[Min(n, Len(RECONNECT_DELAYS) - 1) + 1]

\* gateway.ts:369-384, scheduleReconnect: the gateway fields after it
scheduleReconnect(G) ==
  IF ~G.isRunning THEN G
  ELSE [G EXCEPT !.reconnectAttempts = @ + 1]

\* scheduleReconnect without its setTimeout
scheduleTimerNone(G, T) == T

\* gateway.ts:381-383, the timer scheduleReconnect arms (none when stopped)
scheduleTimer(G, T) ==
  IF ~G.isRunning THEN T
  ELSE Append(T, [delay |-> ReconnectDelay(G.reconnectAttempts),
                  stale |-> FALSE])

\* gateway.ts:354-364, cleanup: the gateway fields after it
cleanup(G) == [G EXCEPT !.heartbeatInterval = FALSE, !.ws = Null]

\* a closed socket: the server's side of it is over
Closed == [st |-> "closed", hello |-> FALSE, ident |-> FALSE, ready |-> FALSE]

\* gateway.ts:360-363, ws.close() on the active socket
closeActive(G, S) ==
  IF G.ws # Null /\ S[G.ws].st \in Live
  THEN [S EXCEPT ![G.ws].st = "closing"]
  ELSE S

\* gateway.ts:355-358, clearInterval of the heartbeat timer
clearHeartbeat(G, n) == IF G.heartbeatInterval THEN n - 1 ELSE n

\* lim.faults is the number of failures (a rejected fetch, a socket error,
\* a close by the peer) the environment may still cause; negative: any number
Spend(l) == IF l.faults > 0 THEN [l EXCEPT !.faults = @ - 1] ELSE l

\* the guard that keeps the model finite: a reconnect can still be scheduled
CanSchedule(g) ==
  ~gw[g].isRunning
  \/ (gw[g].reconnectAttempts < lim.attempts /\ Len(timers[g]) < lim.timers)


\* gateway.ts:124-126, `if (s) this.lastSeq = s` (0 and a missing s are falsy)
trackSeq(G, seq) ==
  IF seq # NoSeq /\ seq # 0 THEN [G EXCEPT !.lastSeq = seq] ELSE G

Seqs == {NoSeq} \cup (0 .. MaxSeq)

\* gateway.ts:330-340, startHeartbeat: the live interval timers after it
startHeartbeat(G, n) == clearHeartbeat(G, n) + 1

\* gateway.ts:86-89, the 'open' handler
onOpen(G) == [G EXCEPT !.reconnectAttempts = 0]

\* gateway.ts:185-190, handleDispatch READY
onReady(G) == [G EXCEPT !.sessionId = 1]

\* op 9 that forgets to clear lastSeq
clearSessionKeepSeq(G) == [G EXCEPT !.sessionId = Null]

\* gateway.ts:147-150, op 9 clears the session before the teardown
clearSession(G) == [G EXCEPT !.sessionId = Null, !.lastSeq = NoSeq]

\* gateway.ts:55-58, stop(): the gateway fields after it
stopped(G) == cleanup([G EXCEPT !.isRunning = FALSE])

\* base/adapter.ts:187-192, setConnected
setConnected(st, c) ==
  [st EXCEPT !.connected = c,
             !.lastConnectedAt = IF c THEN TRUE ELSE @]

\* base/adapter.ts:197-199, setError
setError(st, e) == [st EXCEPT !.lastError = e]

\* base/adapter.ts:103-104, start() after doStart resolved
startSucceeded(st) == [st EXCEPT !.running = TRUE, !.lastError = NoError]

\* a catch block that does not record the error
startFailedSilent(st, e) == st

\* base/adapter.ts:106-109, start() after doStart rejected
startFailed(st, e) == [st EXCEPT !.lastError = e]

\* base/adapter.ts:123-124, stop() after doStop resolved
stopSucceeded(st) == [st EXCEPT !.running = FALSE, !.connected = FALSE]

\* base/adapter.ts:126-129, stop() after doStop rejected
stopFailed(st) == st

\* qq/adapter.ts:63-66, the onConnected callback (optional: gateway.ts:189)
onConnected(G, st) == IF G.wired THEN setConnected(st, TRUE) ELSE st

\* qq/adapter.ts:67-70, the onDisconnected callback (gateway.ts:97)
onDisconnected(G, st) == IF G.wired THEN setConnected(st, FALSE) ELSE st

\* an error handler that only logs
onErrorSilent(G, st) == st

\* qq/adapter.ts:71-74, the onError callback (gateway.ts:106)
onError(G, st) == IF G.wired THEN setError(st, "socket") ELSE st

(* ------------------------ QQGateway: actions -------------------------- *)

\* gateway.ts:43-50 and 63-69: start() on a stopped gateway runs connect()
\* up to `await this.api.getGatewayUrl()`
GwStart(g) ==
  /\ ev' = [g |-> g, k |-> "start", seq |-> NoSeq, d |-> <<>>]
  /\ UNCHANGED coreVars
  /\ ~gw[g].isRunning
  /\ NConns(g) < lim.conns
  /\ gw' = [gw EXCEPT ![g].isRunning = TRUE]
  /\ conns' = [conns EXCEPT ![g]["start"] = @ + 1]
  /\ UNCHANGED <<socks, timers, hellos, intervals, status, adVars, lim>>

\* gateway.ts:55-58: stop(). The timers that are pending now are marked
\* stale: the code keeps no handle of them and clears none.
GwStop(g) ==
  /\ ev' = [g |-> g, k |-> "stop", seq |-> NoSeq, d |-> <<>>]
  /\ UNCHANGED coreVars
  /\ gw[g].isRunning
  /\ gw' = [gw EXCEPT ![g] = stopped(gw[g])]
  /\ socks' = [socks EXCEPT ![g] = closeActive(gw[g], socks[g])]
  /\ intervals' = [intervals EXCEPT ![g] = clearHeartbeat(gw[g], @)]
  /\ timers' = [timers EXCEPT ![g] =
                  [i \in 1 .. Len(@) |-> [@[i] EXCEPT !.stale = TRUE]]]
  /\ UNCHANGED <<conns, hellos, status, adVars, lim>>

\* gateway.ts:381-383 and 63-69: a reconnect timer fires and calls connect(),
\* which returns at once on a stopped gateway
TimerFire(g, i) ==
  /\ ev' = [g |-> g, k |-> "timer", seq |-> NoSeq, d |-> <<>>]
  /\ UNCHANGED coreVars
  /\ i \in 1 .. Len(timers[g])
  /\ timers' = [timers EXCEPT ![g] = RemoveAt(@, i)]
  /\ IF gw[g].isRunning
     THEN /\ NConns(g) < lim.conns
          /\ conns' = [conns EXCEPT
                 ![g][IF timers[g][i].stale THEN "stale" ELSE "timer"] = @ + 1]
     ELSE UNCHANGED conns
  /\ UNCHANGED <<gw, socks, hellos, intervals, status, adVars, lim>>

\* gateway.ts:69-73: getGatewayUrl resolved; the socket is created and made
\* the active one. A connect() awaited by the adapter's start() lets start()
\* finish (base/adapter.ts:102-105).
ConnectResolved(g, o) ==
  /\ ev' = [g |-> g, k |-> "connected", seq |-> NoSeq, d |-> <<>>]
  /\ UNCHANGED coreVars
  /\ conns[g][o] > 0
  /\ Len(socks[g]) < lim.socks
  /\ conns' = [conns EXCEPT ![g][o] = @ - 1]
  /\ socks' = [socks EXCEPT ![g] = Append(@, NewSocket)]
  /\ gw' = [gw EXCEPT ![g].ws = Len(socks[g]) + 1]
  /\ IF o = "adapter"
     THEN /\ status' = startSucceeded(status)
          /\ ret' = [op |-> "start", res |-> "ok", err |-> NoError]
     ELSE UNCHANGED <<status, ret>>
  /\ UNCHANGED <<timers, hellos, intervals, config, adGateway, nGw, calls, lim>>

\* gateway.ts:74-77: getGatewayUrl rejected; connect() swallows the error
ConnectFailed(g, o) ==
  /\ ev' = [g |-> g, k |-> "connectFailed", seq |-> NoSeq, d |-> <<>>]
  /\ UNCHANGED coreVars
  /\ lim.faults # 0
  /\ conns[g][o] > 0
  /\ CanSchedule(g)
  /\ conns' = [conns EXCEPT ![g][o] = @ - 1]
  /\ gw' = [gw EXCEPT ![g] = scheduleReconnect(gw[g])]
  /\ timers' = [timers EXCEPT ![g] = scheduleTimer(gw[g], @)]
  /\ IF o = "adapter"
     THEN /\ status' = startSucceeded(status)
          /\ ret' = [op |-> "start", res |-> "ok", err |-> NoError]
     ELSE UNCHANGED <<status, ret>>
  /\ lim' = Spend(lim)
  /\ UNCHANGED <<socks, hellos, intervals, config, adGateway, nGw, calls>>

\* gateway.ts:86-89: 'open'
SockOpen(g, s) ==
  /\ ev' = [g |-> g, k |-> "open", seq |-> NoSeq, d |-> <<>>]
  /\ UNCHANGED coreVars
  /\ s \in 1 .. Len(socks[g])
  /\ socks[g][s].st = "connecting"
  /\ socks' = [socks EXCEPT ![g][s].st = "open"]
  /\ gw' = [gw EXCEPT ![g] = onOpen(gw[g])]
  /\ UNCHANGED <<timers, conns, hellos, intervals, status, adVars, lim>>

\* gateway.ts:104-107 and qq/adapter.ts:71-74: 'error'; the socket then closes
SockError(g, s) ==
  /\ ev' = [g |-> g, k |-> "error", seq |-> NoSeq, d |-> <<>>]
  /\ UNCHANGED coreVars
  /\ s \in 1 .. Len(socks[g])
  /\ socks[g][s].st \in Live
  /\ lim.faults # 0
  /\ socks' = [socks EXCEPT ![g][s].st = "closing"]
  /\ status' = onError(gw[g], status)
  /\ lim' = Spend(lim)
  /\ UNCHANGED <<gw, timers, conns, hellos, intervals, adVars>>

\* gateway.ts:95-102 and qq/adapter.ts:67-70: 'close', of a socket the peer
\* closed or of one that was closing
SockClose(g, s) ==
  /\ ev' = [g |-> g, k |-> "close", seq |-> NoSeq, d |-> <<>>]
  /\ UNCHANGED coreVars
  /\ s \in 1 .. Len(socks[g])
  /\ socks[g][s].st \in {"open", "closing"}
  /\ socks[g][s].st = "open" => lim.faults # 0
  /\ lim' = IF socks[g][s].st = "open" THEN Spend(lim) ELSE lim
  /\ CanSchedule(g)
  /\ socks' = [socks EXCEPT ![g][s] = Closed]
  /\ status' = onDisconnected(gw[g], status)
  /\ gw' = [gw EXCEPT ![g] = scheduleReconnect(gw[g])]
  /\ timers' = [timers EXCEPT ![g] = scheduleTimer(gw[g], @)]
  /\ UNCHANGED <<conns, hellos, intervals, adVars>>

\* gateway.ts:129-131 and 163-170: op 10; handleHello suspends at
\* `await this.api.getAccessToken()`
FrameHello(g, s) ==
  /\ ev' = [g |-> g, k |-> "op10", seq |-> NoSeq, d |-> <<>>]
  /\ UNCHANGED coreVars
  /\ s \in 1 .. Len(socks[g])
  /\ socks[g][s].st = "open"
  /\ ~socks[g][s].hello
  /\ socks' = [socks EXCEPT ![g][s].hello = TRUE]
  /\ hellos' = [hellos EXCEPT ![g] = @ + 1]
  /\ UNCHANGED <<gw, timers, conns, intervals, status, adVars, lim>>

\* gateway.ts:167-177 and 345-349: the token arrived; Identify goes out on
\* the active socket if that is open, and the heartbeat is started
HelloResolved(g) ==
  /\ ev' = [g |-> g, k |-> "identify", seq |-> NoSeq, d |-> <<>>]
  /\ UNCHANGED coreVars
  /\ hellos[g] > 0
  /\ hellos' = [hellos EXCEPT ![g] = @ - 1]
  /\ socks' = IF gw[g].ws # Null /\ socks[g][gw[g].ws].st = "open"
              THEN [socks EXCEPT ![g][gw[g].ws].ident = TRUE]
              ELSE socks
  /\ intervals' = [intervals EXCEPT ![g] = startHeartbeat(gw[g], @)]
  /\ gw' = [gw EXCEPT ![g].heartbeatInterval = TRUE]
  /\ UNCHANGED <<timers, conns, status, adVars, lim>>

\* gateway.ts:155-157: getAccessToken rejected inside handleHello
HelloFailed(g) ==
  /\ ev' = [g |-> g, k |-> "helloFailed", seq |-> NoSeq, d |-> <<>>]
  /\ UNCHANGED coreVars
  /\ lim.faults # 0
  /\ lim' = Spend(lim)
  /\ hellos[g] > 0
  /\ hellos' = [hellos EXCEPT ![g] = @ - 1]
  /\ UNCHANGED <<gw, socks, timers, conns, intervals, status, adVars>>

\* gateway.ts:133-135, 185-190 and qq/adapter.ts:63-66: op 0 READY
FrameReady(g, s, seq) ==
  /\ ev' = [g |-> g, k |-> "READY", seq |-> seq, d |-> <<>>]
  /\ UNCHANGED coreVars
  /\ s \in 1 .. Len(socks[g])
  /\ socks[g][s].st = "open"
  /\ socks[g][s].ident /\ ~socks[g][s].ready
  /\ socks' = [socks EXCEPT ![g][s].ready = TRUE]
  /\ gw' = [gw EXCEPT ![g] = onReady(trackSeq(gw[g], seq))]
  /\ status' = onConnected(gw[g], status)
  /\ UNCHANGED <<timers, conns, hellos, intervals, adVars, lim>>

\* gateway.ts:137-139: op 11
FrameAck(g, s, seq) ==
  /\ ev' = [g |-> g, k |-> "op11", seq |-> seq, d |-> <<>>]
  /\ UNCHANGED coreVars
  /\ s \in 1 .. Len(socks[g])
  /\ socks[g][s].st = "open"
  /\ gw' = [gw EXCEPT ![g] = trackSeq(gw[g], seq)]
  /\ UNCHANGED <<socks, timers, conns, hellos, intervals, status, adVars, lim>>

\* gateway.ts:141-145: op 7
FrameReconnect(g, s, seq) ==
  /\ ev' = [g |-> g, k |-> "op7", seq |-> seq, d |-> <<>>]
  /\ UNCHANGED coreVars
  /\ s \in 1 .. Len(socks[g])
  /\ socks[g][s].st = "open"
  /\ CanSchedule(g)
  /\ LET G1 == trackSeq(gw[g], seq)
         G2 == cleanup(G1)
     IN /\ gw' = [gw EXCEPT ![g] = scheduleReconnect(G2)]
        /\ socks' = [socks EXCEPT ![g] = closeActive(G1, socks[g])]
        /\ intervals' = [intervals EXCEPT ![g] = clearHeartbeat(G1, @)]
        /\ timers' = [timers EXCEPT ![g] = scheduleTimer(G2, @)]
  /\ UNCHANGED <<conns, hellos, status, adVars, lim>>

\* gateway.ts:147-153: op 9
FrameInvalidSession(g, s, seq) ==
  /\ ev' = [g |-> g, k |-> "op9", seq |-> seq, d |-> <<>>]
  /\ UNCHANGED coreVars
  /\ s \in 1 .. Len(socks[g])
  /\ socks[g][s].st = "open"
  /\ CanSchedule(g)
  /\ LET G1 == clearSession(trackSeq(gw[g], seq))
         G2 == cleanup(G1)
     IN /\ gw' = [gw EXCEPT ![g] = scheduleReconnect(G2)]
        /\ socks' = [socks EXCEPT ![g] = closeActive(G1, socks[g])]
        /\ intervals' = [intervals EXCEPT ![g] = clearHeartbeat(G1, @)]
        /\ timers' = [timers EXCEPT ![g] = scheduleTimer(G2, @)]
  /\ UNCHANGED <<conns, hellos, status, adVars, lim>>

(* ---------------- one gateway driven through its public API ----------- *)

\* the caps of a run
Caps(a, s, t, c) ==
  [attempts |-> a, socks |-> s, timers |-> t, conns |-> c, gws |-> 1,
   faults |-> 0 - 1, regs |-> 1]

\* the state all specifications start from: nothing constructed but the
\* adapter; gateway 1 is constructed when nGw = 1
InitParts(n, l) ==
  /\ gw = [g \in Gws |-> NewGateway]
  /\ socks = [g \in Gws |-> <<>>]
  /\ timers = [g \in Gws |-> <<>>]
  /\ conns = [g \in Gws |-> NoConns]
  /\ hellos = [g \in Gws |-> 0]
  /\ intervals = [g \in Gws |-> 0]
  /\ status = NewStatus
  /\ config = Null
  /\ adGateway = Null
  /\ nGw = n
  /\ calls = [start |-> 0, stop |-> 0, send |-> 0]
  /\ ret = [op |-> "none", res |-> "none", err |-> NoError]
  /\ lim = l
  /\ ev = [g |-> Null, k |-> "none", seq |-> NoSeq, d |-> <<>>]

\* a manager as constructed (channel-manager.ts:24-30) over channels of
\* which none is registered or configured. ad[c] is the adapter of channel
\* c (its stored config, its status, its handlers), op the bulk call in
\* progress, call[c] where that call's startChannel / stopChannel of
\* channel c stands, ops the bulk calls made, last how the last one ended.
\* adapters holds the entries of the registry, each an id and the adapter
\* object (the i-th with that id) registered under it; regs[c] counts the
\* registrations of id c; shelf[c][i] keeps the i-th adapter object with
\* id c while another one is registered
NewMgr ==
  [running |-> FALSE, op |-> "none", ops |-> 0,
   adapters |-> {},
   regs |-> [c \in Chans |-> 0],
   shelf |-> [c \in Chans |-> [i \in 1 .. MaxRegs |->
               [config |-> Null, status |-> NewStatus, n |-> 0]]],
   registered |-> [c \in Chans |-> FALSE],
   cfg |-> [c \in Chans |-> "absent"],
   ad |-> [c \in Chans |-> [config |-> Null, status |-> NewStatus, n |-> 0]],
   call |-> [c \in Chans |-> "none"],
   last |-> "none"]

InitWith(n, l) ==
  /\ InitParts(n, l)
  /\ api = NewApi
  /\ disp = NewDisp
  /\ mgr = NewMgr

\* a QQGateway constructed without callbacks (they are optional in
\* QQGatewayOptions) and driven through start() and stop()
InitGw == InitWith(1, Caps(MaxAttempts, MaxSock, MaxTimers, MaxConns))

InitBackoff ==
  InitWith(1, Caps(BackoffAttempts, BackoffSock, BackoffTimers, BackoffConns))

GwEvent(g) ==
  \/ \E i \in 1 .. lim.timers : TimerFire(g, i)
  \/ \E o \in Origins : ConnectResolved(g, o)
  \/ \E o \in Origins : ConnectFailed(g, o)
  \/ \E s \in 1 .. lim.socks : SockOpen(g, s)
  \/ \E s \in 1 .. lim.socks : SockError(g, s)
  \/ \E s \in 1 .. lim.socks : SockClose(g, s)
  \/ \E s \in 1 .. lim.socks : FrameHello(g, s)
  \/ HelloResolved(g)
  \/ HelloFailed(g)
  \/ \E s \in 1 .. lim.socks, seq \in Seqs : FrameReady(g, s, seq)
  \/ \E s \in 1 .. lim.socks, seq \in Seqs : FrameAck(g, s, seq)
  \/ \E s \in 1 .. lim.socks, seq \in Seqs : FrameReconnect(g, s, seq)
  \/ \E s \in 1 .. lim.socks, seq \in Seqs : FrameInvalidSession(g, s, seq)

NextGw ==
  \/ GwStart(1)
  \/ GwStop(1)
  \/ GwEvent(1)

SpecGw == InitGw /\ [][NextGw]_vars

\* a gateway that is started and never stopped
InitRun == InitWith(1, Caps(MaxAttempts, RunSock, RunTimers, MaxConns))

NextRun ==
  \/ GwStart(1)
  \/ GwEvent(1)

SpecRun == InitRun /\ [][NextRun]_vars

\* the same with one socket at a time, followed to the end of the schedule
SpecBackoff == InitBackoff /\ [][NextRun]_vars

TypeOK ==
  /\ \A g \in Gws :
       /\ gw[g].ws \in 0 .. Len(socks[g])
       /\ gw[g].reconnectAttempts \in 0 .. lim.attempts
       /\ gw[g].lastSeq \in Seqs
       /\ Len(socks[g]) <= lim.socks
       /\ Len(timers[g]) <= lim.timers
       /\ NConns(g) <= lim.conns
       /\ intervals[g] \in 0 .. 1
  /\ nGw \in 0 .. MaxGw


(* ------------------------------ QQAdapter ----------------------------- *)

Ret(op, res, err) == [op |-> op, res |-> res, err |-> err]

\* an initialize that stores the config before it validates it
InitializeStoresFirst(valid) ==
  /\ ev' = [g |-> Null, k |-> "initialize", seq |-> NoSeq, d |-> <<>>]
  /\ UNCHANGED coreVars
  /\ config' = 1
  /\ ret' = IF valid THEN Ret("initialize", "ok", NoError)
            ELSE Ret("initialize", "rejected", "config")
  /\ UNCHANGED <<gwVars, status, adGateway, nGw, calls, lim>>

\* base/adapter.ts:74-86: initialize(config); `valid` is what validateConfig
\* answers for the config
Initialize(valid) ==
  /\ ev' = [g |-> Null, k |-> "initialize", seq |-> NoSeq, d |-> <<>>]
  /\ UNCHANGED coreVars
  /\ IF valid
     THEN /\ config' = 1
          /\ ret' = Ret("initialize", "ok", NoError)
     ELSE /\ config' = config
          /\ ret' = Ret("initialize", "rejected", "config")
  /\ UNCHANGED <<gwVars, status, adGateway, nGw, calls, lim>>

\* base/adapter.ts:91-99: start() returns early or throws
StartRefused ==
  /\ ev' = [g |-> Null, k |-> "start", seq |-> NoSeq, d |-> <<>>]
  /\ UNCHANGED coreVars
  /\ status.running \/ config = Null
  /\ ret' = IF status.running THEN Ret("start", "noop", NoError)
            ELSE Ret("start", "rejected", "uninitialized")
  /\ UNCHANGED <<gwVars, status, config, adGateway, nGw, calls, lim>>

\* base/adapter.ts:101-102, qq/adapter.ts:45-78 and gateway.ts:43-69:
\* start() calls doStart, which constructs a gateway with the adapter's
\* callbacks and awaits its start(), which awaits connect()
QQStart ==
  /\ ev' = [g |-> nGw + 1, k |-> "doStart", seq |-> NoSeq, d |-> <<>>]
  /\ UNCHANGED coreVars
  /\ ~status.running /\ config # Null
  /\ nGw < lim.gws
  /\ nGw' = nGw + 1
  /\ adGateway' = nGw + 1
  /\ gw' = [gw EXCEPT ![nGw + 1] =
              [NewGateway EXCEPT !.wired = TRUE, !.isRunning = TRUE]]
  /\ conns' = [conns EXCEPT ![nGw + 1]["adapter"] = @ + 1]
  /\ UNCHANGED <<socks, timers, hellos, intervals, status, config, calls,
                 ret, lim>>

\* a stop() that resets the status also when the adapter is not running
StopRefusedResets ==
  /\ ev' = [g |-> Null, k |-> "stop", seq |-> NoSeq, d |-> <<>>]
  /\ UNCHANGED coreVars
  /\ ~status.running
  /\ status' = stopSucceeded(status)
  /\ ret' = Ret("stop", "noop", NoError)
  /\ UNCHANGED <<gwVars, config, adGateway, nGw, calls, lim>>

\* base/adapter.ts:116-119: stop() of an adapter that is not running
StopRefused ==
  /\ ev' = [g |-> Null, k |-> "stop", seq |-> NoSeq, d |-> <<>>]
  /\ UNCHANGED coreVars
  /\ ~status.running
  /\ ret' = Ret("stop", "noop", NoError)
  /\ UNCHANGED <<gwVars, status, config, adGateway, nGw, calls, lim>>

\* base/adapter.ts:121-125, qq/adapter.ts:84-90 and gateway.ts:55-58:
\* stop() of a running adapter; doStop stops the gateway and drops it
QQStop ==
  /\ ev' = [g |-> adGateway, k |-> "stopped", seq |-> NoSeq, d |-> <<>>]
  /\ UNCHANGED coreVars
  /\ status.running
  /\ IF adGateway # Null
     THEN LET g == adGateway IN
          /\ gw' = [gw EXCEPT ![g] = stopped(gw[g])]
          /\ socks' = [socks EXCEPT ![g] = closeActive(gw[g], socks[g])]
          /\ intervals' = [intervals EXCEPT ![g] = clearHeartbeat(gw[g], @)]
          /\ timers' = [timers EXCEPT ![g] =
                          [i \in 1 .. Len(@) |-> [@[i] EXCEPT !.stale = TRUE]]]
     ELSE UNCHANGED <<gw, socks, intervals, timers>>
  /\ adGateway' = Null
  /\ status' = stopSucceeded(status)
  /\ ret' = Ret("stop", "ok", NoError)
  /\ UNCHANGED <<conns, hellos, config, nGw, calls, lim>>

\* an adapter that is started once: one gateway object, with the caps of
\* the gateway that is stopped and started
InitQQ == InitWith(0, Caps(MaxAttempts, MaxSock, MaxTimers, MaxConns))

NextQQ ==
  \/ \E valid \in BOOLEAN : Initialize(valid)
  \/ StartRefused
  \/ QQStart
  \/ StopRefused
  \/ QQStop
  \/ \E g \in Gws : GwEvent(g)

SpecQQ == InitQQ /\ [][NextQQ]_vars

(* ------------- the QQ adapter under overlapping start() calls --------- *)

\* an adapter whose start() is called again while a start() is suspended
\* in doStart: every doStart constructs a gateway object (qq/adapter.ts:56)
InitOverlap ==
  InitWith(0, [Caps(OverlapAttempts, OverlapSock, OverlapTimers, OverlapConns)
                 EXCEPT !.gws = MaxGw])

\* the calls of the adapter and, of each gateway, the connection being made
\* and lost; no frames
NextOverlap ==
  \/ Initialize(TRUE)
  \/ StartRefused
  \/ QQStart
  \/ StopRefused
  \/ QQStop
  \/ \E g \in Gws, i \in 1 .. lim.timers : TimerFire(g, i)
  \/ \E g \in Gws, o \in Origins : ConnectResolved(g, o)
  \/ \E g \in Gws, o \in Origins : ConnectFailed(g, o)
  \/ \E g \in Gws, s \in 1 .. lim.socks : SockOpen(g, s)
  \/ \E g \in Gws, s \in 1 .. lim.socks : SockClose(g, s)

SpecOverlap == InitOverlap /\ [][NextOverlap]_vars

(* --------- the QQ adapter in an environment that lets it recover ------ *)

\* at most MaxFaults failures happen (a rejected gateway-URL fetch, a socket
\* error, a close by the peer); no op 7, no op 9, no stop(), and the token
\* fetch of handleHello succeeds
InitLive ==
  /\ InitWith(0, [Caps(MaxFaults + 1, MaxFaults + 1, 1, 1)
                    EXCEPT !.faults = MaxFaults])

CloseDone(g) ==
  \E s \in 1 .. Len(socks[g]) : socks[g][s].st = "closing" /\ SockClose(g, s)

NextLive ==
  \/ Initialize(TRUE)
  \/ QQStart
  \/ \E i \in 1 .. MaxTimers : TimerFire(1, i)
  \/ \E o \in Origins : ConnectResolved(1, o)
  \/ \E o \in Origins : ConnectFailed(1, o)
  \/ \E s \in 1 .. MaxFaults + 1 : SockOpen(1, s)
  \/ \E s \in 1 .. MaxFaults + 1 : SockError(1, s)
  \/ \E s \in 1 .. MaxFaults + 1 : SockClose(1, s)
  \/ \E s \in 1 .. MaxFaults + 1 : FrameHello(1, s)
  \/ HelloResolved(1)
  \/ \E s \in 1 .. MaxFaults + 1, seq \in Seqs : FrameReady(1, s, seq)

\* timers fire, fetches and socket events complete, the server answers
Fairness ==
  /\ WF_vars(\E i \in 1 .. MaxTimers : TimerFire(1, i))
  /\ WF_vars(\E o \in Origins : ConnectResolved(1, o))
  /\ WF_vars(\E s \in 1 .. MaxFaults + 1 : SockOpen(1, s))
  /\ WF_vars(CloseDone(1))
  /\ WF_vars(\E s \in 1 .. MaxFaults + 1 : FrameHello(1, s))
  /\ WF_vars(HelloResolved(1))
  /\ WF_vars(\E s \in 1 .. MaxFaults + 1, seq \in Seqs : FrameReady(1, s, seq))

SpecLive == InitLive /\ [][NextLive]_vars /\ Fairness

(* ---------------- BaseAdapter with an abstract subclass --------------- *)

\* base/adapter.ts:91-102: start() reaches `await this.doStart()`
AbsStart ==
  /\ ev' = [g |-> Null, k |-> "doStart", seq |-> NoSeq, d |-> <<>>]
  /\ UNCHANGED coreVars
  /\ ~status.running /\ config # Null
  /\ calls.start < MaxCalls
  /\ calls' = [calls EXCEPT !.start = @ + 1]
  /\ UNCHANGED <<gwVars, status, config, adGateway, nGw, ret, lim>>

\* base/adapter.ts:102-105: doStart resolved
DoStartResolved ==
  /\ ev' = [g |-> Null, k |-> "started", seq |-> NoSeq, d |-> <<>>]
  /\ UNCHANGED coreVars
  /\ calls.start > 0
  /\ calls' = [calls EXCEPT !.start = @ - 1]
  /\ status' = startSucceeded(status)
  /\ ret' = Ret("start", "ok", NoError)
  /\ UNCHANGED <<gwVars, config, adGateway, nGw, lim>>

\* base/adapter.ts:106-110: doStart rejected
DoStartRejected ==
  /\ ev' = [g |-> Null, k |-> "startFailed", seq |-> NoSeq, d |-> <<>>]
  /\ UNCHANGED coreVars
  /\ calls.start > 0
  /\ calls' = [calls EXCEPT !.start = @ - 1]
  /\ status' = startFailed(status, "doStart")
  /\ ret' = Ret("start", "rejected", "doStart")
  /\ UNCHANGED <<gwVars, config, adGateway, nGw, lim>>

\* base/adapter.ts:116-122: stop() reaches `await this.doStop()`
AbsStop ==
  /\ ev' = [g |-> Null, k |-> "doStop", seq |-> NoSeq, d |-> <<>>]
  /\ UNCHANGED coreVars
  /\ status.running
  /\ calls.stop < MaxCalls
  /\ calls' = [calls EXCEPT !.stop = @ + 1]
  /\ UNCHANGED <<gwVars, status, config, adGateway, nGw, ret, lim>>

\* base/adapter.ts:122-125: doStop resolved
DoStopResolved ==
  /\ ev' = [g |-> Null, k |-> "stopped", seq |-> NoSeq, d |-> <<>>]
  /\ UNCHANGED coreVars
  /\ calls.stop > 0
  /\ calls' = [calls EXCEPT !.stop = @ - 1]
  /\ status' = stopSucceeded(status)
  /\ ret' = Ret("stop", "ok", NoError)
  /\ UNCHANGED <<gwVars, config, adGateway, nGw, lim>>

\* base/adapter.ts:126-129: doStop rejected
DoStopRejected ==
  /\ ev' = [g |-> Null, k |-> "stopFailed", seq |-> NoSeq, d |-> <<>>]
  /\ UNCHANGED coreVars
  /\ calls.stop > 0
  /\ calls' = [calls EXCEPT !.stop = @ - 1]
  /\ status' = stopFailed(status)
  /\ ret' = Ret("stop", "rejected", "doStop")
  /\ UNCHANGED <<gwVars, config, adGateway, nGw, lim>>

\* base/adapter.ts:187-192: the subclass reports its connection
\* (feishu/adapter.ts:65-72, wecom/adapter.ts:58 and 68)
SubSetConnected(c) ==
  /\ ev' = [g |-> Null, k |-> "setConnected", seq |-> NoSeq, d |-> <<>>]
  /\ UNCHANGED coreVars
  /\ status' = setConnected(status, c)
  /\ UNCHANGED <<gwVars, config, adGateway, nGw, calls, ret, lim>>

\* base/adapter.ts:197-199: the subclass reports an error
\* (feishu/adapter.ts:73-76)
SubSetError ==
  /\ ev' = [g |-> Null, k |-> "setError", seq |-> NoSeq, d |-> <<>>]
  /\ UNCHANGED coreVars
  /\ status' = setError(status, "subclass")
  /\ UNCHANGED <<gwVars, config, adGateway, nGw, calls, ret, lim>>

\* what doSendMessage can do: resolve to a result with success true or
\* false, or reject
SendOutcomes == {"success", "failure", "thrown"}

\* a sendMessage that counts every result
sendSettledCountsAll(st, o) == [st EXCEPT !.outbound = @ + 1]

\* base/adapter.ts:148-158: sendMessage after doSendMessage settled
sendSettled(st, o) ==
  IF o = "success" THEN [st EXCEPT !.outbound = @ + 1] ELSE st

\* base/adapter.ts:148-158: what sendMessage resolves to
sendResult(o) ==
  IF o = "success" THEN Ret("send", "success", NoError)
  ELSE IF o = "failure" THEN Ret("send", "failure", "doSendMessage")
  ELSE Ret("send", "failure", "thrown")

\* a sendMessage without the running check
SendAlways ==
  /\ ev' = [g |-> Null, k |-> "doSend", seq |-> NoSeq, d |-> <<>>]
  /\ UNCHANGED coreVars
  /\ ~status.running
  /\ calls.send < MaxCalls
  /\ calls' = [calls EXCEPT !.send = @ + 1]
  /\ UNCHANGED <<gwVars, status, config, adGateway, nGw, ret, lim>>

\* base/adapter.ts:135-145: sendMessage on an adapter that is not running
SendRefused ==
  /\ ev' = [g |-> Null, k |-> "send", seq |-> NoSeq, d |-> <<>>]
  /\ UNCHANGED coreVars
  /\ ~status.running
  /\ ret' = Ret("send", "failure", "notRunning")
  /\ UNCHANGED <<gwVars, status, config, adGateway, nGw, calls, lim>>

\* base/adapter.ts:135-148: sendMessage reaches `await this.doSendMessage()`
AbsSend ==
  /\ ev' = [g |-> Null, k |-> "doSend", seq |-> NoSeq, d |-> <<>>]
  /\ UNCHANGED coreVars
  /\ status.running
  /\ calls.send < MaxCalls
  /\ status.outbound + calls.send < MaxOut
  /\ calls' = [calls EXCEPT !.send = @ + 1]
  /\ UNCHANGED <<gwVars, status, config, adGateway, nGw, ret, lim>>

\* base/adapter.ts:148-159: doSendMessage settled
DoSendSettled(o) ==
  /\ ev' = [g |-> Null, k |-> "sent", seq |-> NoSeq, d |-> <<>>]
  /\ UNCHANGED coreVars
  /\ calls.send > 0
  /\ calls' = [calls EXCEPT !.send = @ - 1]
  /\ status' = sendSettled(status, o)
  /\ ret' = sendResult(o)
  /\ UNCHANGED <<gwVars, config, adGateway, nGw, lim>>

InitBase == InitWith(0, Caps(0, 0, 0, 0))

NextBase ==
  \/ \E valid \in BOOLEAN : Initialize(valid)
  \/ StartRefused
  \/ AbsStart
  \/ DoStartResolved
  \/ DoStartRejected
  \/ StopRefused
  \/ AbsStop
  \/ DoStopResolved
  \/ DoStopRejected
  \/ \E c \in BOOLEAN : SubSetConnected(c)
  \/ SubSetError
  \/ SendRefused
  \/ AbsSend
  \/ \E o \in SendOutcomes : DoSendSettled(o)

SpecBase == InitBase /\ [][NextBase]_vars

(* -------------------- BaseAdapter: status snapshots ------------------- *)

\* the messageCount object of the adapter's own _status, as a reference
SharedCounters == "_status.messageCount"

\* the fields of a snapshot a caller can assign to
SnapshotFields ==
  {"running", "connected", "lastConnectedAt", "lastError", "inbound",
   "outbound"}

\* base/adapter.ts:67-69, `{ ...this._status }`: the top-level fields are
\* copied, the messageCount field is the reference to the adapter's object
snapshot(st) ==
  [running |-> st.running, connected |-> st.connected,
   lastConnectedAt |-> st.lastConnectedAt, lastError |-> st.lastError,
   messageCount |-> SharedCounters]

\* base/adapter.ts:67-69: the status getter
GetStatus ==
  /\ ev' = [g |-> Null, k |-> "status", seq |-> NoSeq, d |-> <<>>]
  /\ UNCHANGED coreVars
  /\ ret' = Ret("status", snapshot(status), NoError)
  /\ UNCHANGED <<gwVars, status, config, adGateway, nGw, calls, lim>>

\* the caller assigns to field f of the snapshot it holds: a top-level
\* field is the snapshot's own; an assignment to messageCount.inbound or
\* .outbound goes to the object the snapshot's messageCount refers to
MutateSnapshot(f, v) ==
  /\ ev' = [g |-> Null, k |-> "mutate", seq |-> NoSeq, d |-> <<>>]
  /\ UNCHANGED coreVars
  /\ ret.op = "status"
  /\ IF f \in {"inbound", "outbound"}
     THEN /\ ret.res.messageCount = SharedCounters
          /\ status' = [status EXCEPT ![f] = v]
          /\ ret' = ret
     ELSE /\ status' = status
          /\ ret' = [ret EXCEPT !.res[f] =
                       IF f = "lastError" THEN "mutated" ELSE ~@]
  /\ UNCHANGED <<gwVars, config, adGateway, nGw, calls, lim>>

InitSnap == InitWith(0, Caps(0, 0, 0, 0))

NextSnap ==
  \/ Initialize(TRUE)
  \/ AbsStart
  \/ DoStartResolved
  \/ \E c \in BOOLEAN : SubSetConnected(c)
  \/ AbsSend
  \/ \E o \in SendOutcomes : DoSendSettled(o)
  \/ GetStatus
  \/ \E f \in SnapshotFields, v \in 0 .. MaxOut : MutateSnapshot(f, v)

SpecSnap == InitSnap /\ [][NextSnap]_vars

(* ----------------------- QQApi: the token cache ---------------------- *)

\* qq/adapter.ts:264 (part_002:40): refresh five minutes early, in ms
REFRESH_SKEW == 5 * 60 * 1000

\* qq/adapter.ts:285 (part_002:66): `expires_in ?? 7200`, in seconds
DEFAULT_EXPIRES_IN == 7200

\* a response without expires_in
NoExpiry == 0 - 1

\* the expires_in values the token endpoint answers with, in seconds: none,
\* less than the skew, twice the skew
ExpiresIn == {NoExpiry, 240, 600}

\* what the clock advances by in one step, in ms
TickMs == 150 * 1000

\* a validity check that forgets the skew
cacheValidNoSkew(C, now) == C # NoCache /\ now < C.expiresAt

\* qq/adapter.ts:264 (part_002:40): the cached token can be returned
cacheValid(C, now) == C # NoCache /\ now < C.expiresAt - REFRESH_SKEW

\* qq/adapter.ts:283-286 (part_002:64-67): the cache entry a response makes
cacheEntry(token, e, now) ==
  [token |-> token,
   expiresAt |-> now + (IF e = NoExpiry THEN DEFAULT_EXPIRES_IN ELSE e) * 1000]

\* time passes
Tick ==
  /\ ev' = [g |-> Null, k |-> "tick", seq |-> NoSeq, d |-> <<>>]
  /\ api.now < MaxTicks * TickMs
  /\ api' = [api EXCEPT !.now = @ + TickMs]
  /\ UNCHANGED <<gwVars, status, adVars, lim, disp, mgr>>

\* qq/adapter.ts:262-275 (part_002:38-51): getAccessToken returns the cached
\* token or sends the token exchange and waits for the response
GetAccessToken ==
  /\ ev' = [g |-> Null, k |-> "getToken", seq |-> NoSeq, d |-> <<>>]
  /\ IF cacheValid(api.tokenCache, api.now)
     THEN api' = [api EXCEPT
                    !.last = [token |-> api.tokenCache.token, from |-> "cache"]]
     ELSE /\ api.fetches < MaxFetches
          /\ api.exchanges < MaxExchanges
          /\ api' = [api EXCEPT !.fetches = @ + 1, !.exchanges = @ + 1]
  /\ UNCHANGED <<gwVars, status, adVars, lim, disp, mgr>>

\* qq/adapter.ts:277-288 (part_002:53-70): the response carries a token
FetchResolved(e) ==
  /\ ev' = [g |-> Null, k |-> "token", seq |-> NoSeq, d |-> <<>>]
  /\ api.fetches > 0
  /\ LET token == api.issued + 1 IN
     api' = [api EXCEPT
               !.fetches = @ - 1,
               !.issued = token,
               !.resp = e,
               !.tokenCache = cacheEntry(token, e, api.now),
               !.last = [token |-> token, from |-> "exchange"]]
  /\ UNCHANGED <<gwVars, status, adVars, lim, disp, mgr>>

\* qq/adapter.ts:268-281 (part_002:44-62): the request fails or the
\* response carries no token; getAccessToken rejects
FetchFailed ==
  /\ ev' = [g |-> Null, k |-> "tokenFailed", seq |-> NoSeq, d |-> <<>>]
  /\ api.fetches > 0
  /\ api' = [api EXCEPT !.fetches = @ - 1,
                        !.last = [token |-> Null, from |-> "error"]]
  /\ UNCHANGED <<gwVars, status, adVars, lim, disp, mgr>>

\* qq/adapter.ts:294-296 (part_002:76-78): clearTokenCache
ClearTokenCache ==
  /\ ev' = [g |-> Null, k |-> "clearCache", seq |-> NoSeq, d |-> <<>>]
  /\ api' = [api EXCEPT !.tokenCache = NoCache]
  /\ UNCHANGED <<gwVars, status, adVars, lim, disp, mgr>>

InitToken == InitWith(0, Caps(0, 0, 0, 0))

NextToken ==
  \/ Tick
  \/ GetAccessToken
  \/ \E e \in ExpiresIn : FetchResolved(e)
  \/ FetchFailed
  \/ ClearTokenCache

SpecToken == InitToken /\ [][NextToken]_vars

(* ------------------- BaseAdapter: inbound fan-out --------------------- *)

\* a loop without the try/catch: the first handler that throws ends the
\* dispatchMessage call
AdvanceNoCatch(D, m, i, k) ==
  LET to == IF k > i THEN i ELSE Min(k, D.n) IN
  [D EXCEPT
     !.log = [h \in 1 .. MaxHandlers |->
                IF h \in i .. to THEN Append(@[h], m) ELSE @[h]],
     !.run = {d \in @ : d.msg # m}
               \cup (IF k = i /\ k <= D.n
                     THEN {[msg |-> m, i |-> k]} ELSE {}),
     !.done = IF k > D.n /\ k = i THEN @ + 1 ELSE @]

\* base/adapter.ts:175-181 (and channel-manager.ts:84-90), the loop of
\* dispatchMessage for message m from handler i on: the handlers before k
\* throw at once and are caught, handler k returns a promise the loop
\* awaits; k = n + 1 when no handler is left and the call resolves
Advance(D, m, i, k) ==
  [D EXCEPT
     !.log = [h \in 1 .. MaxHandlers |->
                IF h \in i .. Min(k, D.n) THEN Append(@[h], m) ELSE @[h]],
     !.run = {d \in @ : d.msg # m}
               \cup (IF k <= D.n THEN {[msg |-> m, i |-> k]} ELSE {}),
     !.done = IF k > D.n THEN @ + 1 ELSE @,
     !.caught = @ + (Min(k, D.n + 1) - i)]

\* base/adapter.ts:165-167: onMessage(handler)
OnMessage ==
  /\ ev' = [g |-> Null, k |-> "onMessage", seq |-> NoSeq, d |-> <<>>]
  /\ disp.n < MaxHandlers
  /\ disp' = [disp EXCEPT !.n = @ + 1]
  /\ UNCHANGED <<gwVars, status, adVars, lim, api, mgr>>

\* base/adapter.ts:172-177: dispatchMessage(message) counts the message and
\* runs its loop up to the first handler it has to wait for
Inbound ==
  /\ ev' = [g |-> Null, k |-> "dispatch", seq |-> NoSeq, d |-> <<>>]
  /\ disp.msgs < MaxMsgs
  /\ status' = [status EXCEPT !.inbound = @ + 1]
  /\ LET m == disp.msgs + 1 IN
     \E k \in 1 .. disp.n + 1 :
       disp' = Advance([disp EXCEPT !.msgs = m, !.at[m] = disp.n], m, 1, k)
  /\ UNCHANGED <<gwVars, adVars, lim, api, mgr>>

\* base/adapter.ts:175-181: the handler a dispatchMessage call waits for
\* settled (a rejection is caught and logged); the loop goes on
HandlerSettled(m, threw) ==
  /\ ev' = [g |-> Null, k |-> "handled", seq |-> NoSeq, d |-> <<>>]
  /\ \E d \in disp.run :
       /\ d.msg = m
       /\ \E k \in d.i + 1 .. disp.n + 1 :
            disp' = Advance([disp EXCEPT !.caught = IF threw THEN @ + 1 ELSE @],
                            m, d.i + 1, k)
  /\ UNCHANGED <<gwVars, status, adVars, lim, api, mgr>>

InitDisp == InitWith(0, Caps(0, 0, 0, 0))

NextDisp ==
  \/ OnMessage
  \/ Inbound
  \/ \E m \in 1 .. MaxMsgs, threw \in BOOLEAN : HandlerSettled(m, threw)

SpecDisp == InitDisp /\ [][NextDisp]_vars

(* --------------------- FeishuAdapter: inbound path -------------------- *)

\* part_002:345-367 (FeishuConfig) and part_003:283-314 (validateConfig):
\* the policies validateConfig lets pass, "undefined" for a field left out
DmPolicies == {"undefined", "open", "pairing", "allowlist", "disabled"}

GroupPolicies == {"undefined", "open", "allowlist", "disabled"}

\* an id list of a config: left out, empty, or with the id 1
IdLists == {Undefined, [defined |-> TRUE, items |-> <<>>],
            [defined |-> TRUE, items |-> <<1>>]}

\* the configs of a run: every setting of the fields read for a DM with
\* the fields read for a group message left out, and the other way round
FeishuConfigs ==
  {cfg \in [dmPolicy : DmPolicies, groupPolicy : GroupPolicies,
            allowFrom : IdLists, groupAllowFrom : IdLists,
            requireMention : {"undefined", "true", "false"}] :
     \/ cfg.dmPolicy = "undefined" /\ cfg.allowFrom = Undefined
     \/ /\ cfg.groupPolicy = "undefined" /\ cfg.groupAllowFrom = Undefined
        /\ cfg.requireMention = "undefined"}

\* feishu/client.ts:165 and part_002:370-380: the events the client hands
\* to onMessage; sender and chat ids are 1 or 2
FeishuEvents ==
  [type : {"dm", "group"}, senderId : 1 .. MaxIds, chatId : 1 .. MaxIds,
   mentioned : BOOLEAN]

\* Array.prototype.includes
includes(l, x) == \E i \in 1 .. Len(l.items) : l.items[i] = x

\* `list?.length` as a condition
hasLength(l) == l.defined /\ Len(l.items) > 0

\* part_003:145-168 (feishu/adapter.ts:147-170): checkAccess(event); cfgSet
\* is `this.config` being set
checkAccess(cfgSet, cfg, e) ==
  IF ~cfgSet THEN FALSE
  ELSE IF e.type = "dm"
  THEN IF cfg.dmPolicy = "disabled" THEN FALSE
       ELSE IF cfg.dmPolicy = "open" THEN TRUE
       ELSE IF cfg.dmPolicy = "allowlist" /\ hasLength(cfg.allowFrom)
       THEN includes(cfg.allowFrom, e.senderId)
       ELSE TRUE
  ELSE IF cfg.groupPolicy = "disabled" THEN FALSE
       ELSE IF cfg.groupPolicy = "open" THEN TRUE
       ELSE IF cfg.groupPolicy = "allowlist" /\ hasLength(cfg.groupAllowFrom)
       THEN includes(cfg.groupAllowFrom, e.chatId)
       ELSE TRUE

\* part_003:110-117: a group message without a mention is skipped unless
\* the config says requireMention: false (feishu/adapter.ts:116-119 skips
\* it always, as a config without requireMention does here)
mentionMissing(cfg, e) ==
  /\ e.type = "group"
  /\ cfg.requireMention # "false"
  /\ ~e.mentioned

\* part_003:119-136: the InboundMessage built from the event
feishuMessage(e) ==
  [channel |-> "feishu", senderId |-> e.senderId, chatId |-> e.chatId,
   chatType |-> IF e.type = "dm" THEN "dm" ELSE "group",
   mentioned |-> e.mentioned]

\* base/adapter.ts:74-86 with part_003:283-314: initialize(config) with a
\* config validateConfig accepts
FeishuInitialize(cfg) ==
  /\ ev' = [g |-> Null, k |-> "initialize", seq |-> NoSeq, d |-> <<>>]
  /\ config = Null
  /\ config' = 1
  /\ ret' = Ret("initialize", "ok", NoError)
  /\ disp' = [disp EXCEPT !.access = cfg]
  /\ UNCHANGED <<gwVars, status, adGateway, nGw, calls, lim, api, mgr>>

\* part_003:57-59 and 92-140: the client hands event e to onMessage, which
\* runs handleMessage(e) up to the first handler dispatchMessage waits for;
\* ev.d holds the event
FeishuEvent(e) ==
  /\ ev' = [g |-> Null, k |-> "feishu", seq |-> NoSeq, d |-> <<e>>]
  /\ status.running
  /\ IF ~checkAccess(config # Null, disp.access, e)
        \/ mentionMissing(disp.access, e)
     THEN /\ disp' = disp
          /\ status' = status
     ELSE /\ Len(disp.delivered) < MaxDelivered
          /\ status' = [status EXCEPT !.inbound = @ + 1]
          /\ LET m == disp.msgs + 1 IN
             \E k \in 1 .. disp.n + 1 :
               disp' = Advance([disp EXCEPT
                                  !.delivered = Append(@, feishuMessage(e)),
                                  !.msgs = m, !.at[m] = disp.n], m, 1, k)
  /\ UNCHANGED <<gwVars, adVars, lim, api, mgr>>

InitFeishu == InitWith(0, Caps(0, 0, 0, 0))

NextFeishu ==
  \/ \E cfg \in FeishuConfigs : FeishuInitialize(cfg)
  \/ AbsStart
  \/ DoStartResolved
  \/ OnMessage
  \/ \E e \in FeishuEvents : FeishuEvent(e)
  \/ \E m \in 1 .. MaxMsgs, threw \in BOOLEAN : HandlerSettled(m, threw)

SpecFeishu == InitFeishu /\ [][NextFeishu]_vars

(* ------------------ QQGateway and QQAdapter: frames ------------------- *)

\* gateway.ts:120 and 165: the t of the op 0 frames the platform sends
\* under the intents of Identify: its four message events (private, group,
\* channel, direct) and RESUMED, which is no message event
Tags ==
  {"C2C_MESSAGE_CREATE", "GROUP_AT_MESSAGE_CREATE", "AT_MESSAGE_CREATE",
   "DIRECT_MESSAGE_CREATE", "RESUMED"}

\* gateway.ts:115-122: a parsed op 0 frame: s, t and the fields of d the
\* handlers read: the author's id (author.user_openid, author.member_openid
\* or author.id), the id of the place (group_openid or channel_id), the
\* content, and the timestamp, an ISO date string that denotes the
\* timestamp-th second. The author has id 1, the place id 2.
Frames ==
  [s : Seqs, t : Tags, author : {1}, place : {2}, content : {1},
   timestamp : {1}]

\* `new Date(isoString).getTime()`: the milliseconds of the instant
getTime(t) == t * 1000

\* gateway.ts:213-236, handleC2CMessage: the event passed to onMessage
handleC2CMessage(f) ==
  [type |-> "c2c", senderId |-> f.author,
   chatId |-> [kind |-> "user", id |-> f.author],
   content |-> f.content, timestamp |-> getTime(f.timestamp)]

\* gateway.ts:241-265, handleGroupMessage
handleGroupMessage(f) ==
  [type |-> "group", senderId |-> f.author,
   chatId |-> [kind |-> "group", id |-> f.place],
   content |-> f.content, timestamp |-> getTime(f.timestamp)]

\* gateway.ts:270-295, handleGuildMessage
handleGuildMessage(f) ==
  [type |-> "guild", senderId |-> f.author,
   chatId |-> [kind |-> "channel", id |-> f.place],
   content |-> f.content, timestamp |-> getTime(f.timestamp)]

\* gateway.ts:300-325, handleDMMessage
handleDMMessage(f) ==
  [type |-> "dm", senderId |-> f.author,
   chatId |-> [kind |-> "dm", id |-> f.author],
   content |-> f.content, timestamp |-> getTime(f.timestamp)]

\* a switch with a default branch that takes the frame for a channel message
handleDispatchDefault(f) ==
  IF f.t = "C2SSAGE_CREATE" THEN <<handleC2CMessage(f)>>
  ELSE IF f.t = "GROUP_AT_MESSAGE_CREATE" THEN <<handleGroupMessage(f)>>
  ELSE IF f.t = "DIRECT_MESSAGE_CREATE" THEN <<handleDMMessage(f)>>
  ELSE <<handleGuildMessage(f)>>

\* gateway.ts:183-208, handleDispatch for the tags other than READY: the
\* events passed to onMessage, by the case labels of the switch
handleDispatch(f) ==
  IF f.t = "C2SSAGE_CREATE" THEN <<handleC2CMessage(f)>>
  ELSE IF f.t = "GROUP_AT_MESSAGE_CREATE" THEN <<handleGroupMessage(f)>>
  ELSE IF f.t = "AT_MESSAGE_CREATE" THEN <<handleGuildMessage(f)>>
  ELSE IF f.t = "DIRECT_MESSAGE_CREATE" THEN <<handleDMMessage(f)>>
  ELSE <<>>

\* qq/adapter.ts:95-121, handleMessage: the InboundMessage built from the
\* event; raw is the event
qqMessage(e) ==
  [channel |-> "qq", senderId |-> e.senderId, chatId |-> e.chatId,
   chatType |-> IF e.type = "c2c" \/ e.type = "dm" THEN "dm" ELSE "group",
   text |-> e.content, timestamp |-> e.timestamp, raw |-> e]

\* a parse error that is handled like a lost connection
FrameUnparsableFatal(g, s) ==
  /\ ev' = [g |-> g, k |-> "unparsable", seq |-> NoSeq, d |-> <<>>]
  /\ s \in 1 .. Len(socks[g])
  /\ socks[g][s].st = "open"
  /\ gw' = [gw EXCEPT ![g] = cleanup(gw[g])]
  /\ UNCHANGED <<socks, timers, conns, hellos, intervals, status, adVars,
                 lim, coreVars>>

\* gateway.ts:91-93, 113-115 and 155-157: a frame JSON.parse refuses; the
\* error is caught and logged
FrameUnparsable(g, s) ==
  /\ ev' = [g |-> g, k |-> "unparsable", seq |-> NoSeq, d |-> <<>>]
  /\ s \in 1 .. Len(socks[g])
  /\ socks[g][s].st = "open"
  /\ UNCHANGED <<gwVars, status, adVars, lim, coreVars>>

\* gateway.ts:122-135, 183-208 and qq/adapter.ts:60-62, 95-125: an op 0
\* frame f other than READY; a message event goes through onMessage and
\* handleMessage into dispatchMessage, which runs up to the first handler
\* it has to wait for. ev.d holds the frame.
FrameDispatch(g, s, f) ==
  /\ ev' = [g |-> g, k |-> "op0", seq |-> f.s, d |-> <<f>>]
  /\ s \in 1 .. Len(socks[g])
  /\ socks[g][s].st = "open"
  /\ gw' = [gw EXCEPT ![g] = trackSeq(gw[g], f.s)]
  /\ LET E == handleDispatch(f) IN
     IF E = <<>> \/ ~gw[g].wired
     THEN /\ disp' = disp
          /\ status' = status
     ELSE /\ Len(disp.delivered) < MaxDelivered
          /\ status' = [status EXCEPT !.inbound = @ + 1]
          /\ LET m == disp.msgs + 1 IN
             \E k \in 1 .. disp.n + 1 :
               disp' = Advance([disp EXCEPT
                                  !.delivered = Append(@, qqMessage(E[1])),
                                  !.msgs = m, !.at[m] = disp.n], m, 1, k)
  /\ UNCHANGED <<socks, timers, conns, hellos, intervals, adVars, lim, api,
                 mgr>>

\* the QQ adapter with subscribers, started once, on a connection that is
\* made once and re-made once
InitFrames ==
  InitWith(0, Caps(FrameAttempts, FrameSock, FrameTimers, FrameConns))

NextFrames ==
  \/ Initialize(TRUE)
  \/ OnMessage
  \/ QQStart
  \/ GwEvent(1)
  \/ \E s \in 1 .. lim.socks : FrameUnparsable(1, s)
  \/ \E s \in 1 .. lim.socks, f \in Frames : FrameDispatch(1, s, f)
  \/ \E m \in 1 .. MaxMsgs, threw \in BOOLEAN : HandlerSettled(m, threw)

SpecFrames == InitFrames /\ [][NextFrames]_vars

\* the same adapter, stopped at any moment of that run
NextLate ==
  \/ NextFrames
  \/ QQStop

SpecLate == InitFrames /\ [][NextLate]_vars

(* ------------------------- gateway: heartbeat -------------------------- *)

\* gateway.ts:337 and 346: `this.ws?.readyState === WebSocket.OPEN`
wsOpen(g) == gw[g].ws # Null /\ socks[g][gw[g].ws].st = "open"

\* gateway.ts:335-339: the interval callback. On an open socket it sends
\* {op: 1, d: this.lastSeq} (ev.k is "op1" and ev.seq the d of the frame),
\* otherwise it sends nothing (ev.k is "tick").
HeartbeatTick(g) ==
  /\ intervals[g] > 0
  /\ ev' = IF wsOpen(g)
           THEN [g |-> g, k |-> "op1", seq |-> gw[g].lastSeq, d |-> <<>>]
           ELSE [g |-> g, k |-> "tick", seq |-> NoSeq, d |-> <<>>]
  /\ UNCHANGED <<gwVars, status, adVars, lim, coreVars>>

\* a gateway that is started and never stopped, with its heartbeat
InitBeat == InitWith(1, Caps(MaxAttempts, MaxSock, MaxTimers, MaxConns))

NextBeat ==
  \/ GwStart(1)
  \/ GwEvent(1)
  \/ HeartbeatTick(1)

SpecBeat == InitBeat /\ [][NextBeat]_vars

(* --------------------- QQAdapter: validateConfig ---------------------- *)

\* JavaScript values: a type tag and, for strings and numbers, the text
JsUndefined == [type |-> "undefined", v |-> ""]
JsString(t) == [type |-> "string", v |-> t]
JsNumber(t) == [type |-> "number", v |-> t]
JsTrue == [type |-> "boolean", v |-> "true"]

\* `!x` is false: undefined, the empty string and 0 are falsy
truthy(x) ==
  /\ x.type # "undefined"
  /\ ~(x.type = "string" /\ x.v = "")
  /\ ~(x.type = "number" /\ x.v = "0")

\* qq/adapter.ts:214, `cfg.appId !== 'string'`: strict inequality with the
\* string 'string'
notTheStringString(x) == ~(x.type = "string" /\ x.v = "string")

\* what initialize is handed: null, a string, or an object with or without
\* the fields enabled, appId (none, empty, an id, the word string, a
\* number), clientSecret and clientSecretFile (none, empty, a value)
QQConfigs ==
  [type : {"object"},
   enabled : {JsUndefined, JsTrue},
   appId : {JsUndefined, JsString(""), JsString("102001"),
            JsString("string"), JsNumber("102001")},
   clientSecret : {JsUndefined, JsString(""), JsString("secret")},
   clientSecretFile : {JsUndefined, JsString(""), JsString("/run/secret")}]
  \cup
  [type : {"null", "string"}, enabled : {JsUndefined}, appId : {JsUndefined},
   clientSecret : {JsUndefined}, clientSecretFile : {JsUndefined}]

\* qq/adapter.ts:205-226, validateConfig: the errors it collects
validateConfig(c) ==
  IF c.type # "object" THEN <<"config">>
  ELSE (IF ~truthy(c.appId) \/ notTheStringString(c.appId)
        THEN <<"appId">> ELSE <<>>)
       \o (IF ~truthy(c.clientSecret) /\ ~truthy(c.clientSecretFile)
           THEN <<"clientSecret">> ELSE <<>>)

\* base/adapter.ts:74-86 with qq/adapter.ts:205-226: initialize(c) of the
\* QQ adapter; ev.d holds c
QQInitialize(c) ==
  /\ ev' = [g |-> Null, k |-> "initialize", seq |-> NoSeq, d |-> <<c>>]
  /\ IF validateConfig(c) = <<>>
     THEN /\ config' = 1
          /\ ret' = Ret("initialize", "ok", NoError)
     ELSE /\ config' = config
          /\ ret' = Ret("initialize", "rejected", "config")
  /\ UNCHANGED <<gwVars, status, adGateway, nGw, calls, lim, coreVars>>

InitConfig == InitWith(0, Caps(0, 0, 0, 0))

NextConfig ==
  \/ \E c \in QQConfigs : QQInitialize(c)
  \/ StartRefused
  \/ AbsStart
  \/ DoStartResolved
  \/ DoStartRejected

SpecConfig == InitConfig /\ [][NextConfig]_vars

(* --------------------------- ChannelManager --------------------------- *)

\* an array push in place of Map.set: the entry is added, none replaced
registryAdd(R, c, i) == R \cup {[id |-> c, inst |-> i]}

\* channel-manager.ts:44, `this.adapters.set(id, adapter)`
registrySet(R, c, i) ==
  {p \in R : p.id # c} \cup {[id |-> c, inst |-> i]}

\* channel-manager.ts:53-55, getAdapter: the object registered under id c,
\* Null for undefined
getAdapter(M, c) ==
  IF \E p \in M.adapters : p.id = c
  THEN (CHOOSE p \in M.adapters : p.id = c).inst
  ELSE Null

\* channel-manager.ts:67-69, getChannelIds
getChannelIds(M) == {p.id : p \in M.adapters}

\* channel-manager.ts:202-216, getStatus: one entry for every entry of the
\* registry, with the snapshot of its adapter's status and its identity
getStatus(M) ==
  {[id |-> p.id, inst |-> p.inst, status |-> snapshot(M.ad[p.id].status)] :
     p \in M.adapters}

\* channel-manager.ts:37-46: registerAdapter(adapter), adapter being the i-th
\* adapter object with id c; ev.seq is i. The object registered before goes
\* to the shelf. Not while a call of the bulk operation waits for the
\* adapter of c.
RegisterAdapter(c, i) ==
  /\ ev' = [g |-> c, k |-> "registerAdapter", seq |-> i, d |-> <<>>]
  /\ mgr.regs[c] < lim.regs
  /\ mgr.call[c] \notin {"doStart", "doStop"}
  /\ LET j == getAdapter(mgr, c) IN
     mgr' = [mgr EXCEPT
               !.registered[c] = TRUE,
               !.regs[c] = @ + 1,
               !.adapters = registrySet(@, c, i),
               !.ad[c] = IF j \in {Null, i} THEN @ ELSE mgr.shelf[c][i],
               !.shelf[c] = IF j \in {Null, i} THEN @
                            ELSE [@ EXCEPT ![j] = mgr.ad[c]]]
  /\ UNCHANGED <<gwVars, status, adVars, lim, api, disp>>

\* config-manager.ts:148-167 (setChannelConfig, removeChannelConfig) or a
\* loaded file: the config of channel c becomes one of kind `kind`
ConfigChanged(c, kind) ==
  /\ ev' = [g |-> c, k |-> "config", seq |-> NoSeq, d |-> <<>>]
  /\ mgr.cfg[c] # kind
  /\ mgr' = [mgr EXCEPT !.cfg[c] = kind]
  /\ UNCHANGED <<gwVars, status, adVars, lim, api, disp>>

\* channel-manager.ts:98-126 and base/adapter.ts:74-102: how far
\* startChannel(c) gets before it has to wait
startChannel(M, c) ==
  IF ~M.registered[c] THEN "rejected:adapter"
  ELSE IF M.cfg[c] \in {"absent", "null"} THEN "rejected:config"
  ELSE IF M.cfg[c] = "disabled" THEN "fulfilled:disabled"
  ELSE IF M.cfg[c] = "invalid" THEN "rejected:invalid"
  ELSE IF M.ad[c].status.running THEN "fulfilled:running"
  ELSE "doStart"

\* channel-manager.ts:116-123: the adapter after startChannel(c) initialized
\* it and registered the manager's handler on it
startChannelAdapter(M, c) ==
  IF M.registered[c] /\ M.cfg[c] = "valid"
  THEN [M.ad[c] EXCEPT !.config = 1, !.n = @ + 1]
  ELSE M.ad[c]

\* channel-manager.ts:140-147 and base/adapter.ts:116-122: how far
\* stopChannel(c) gets before it has to wait
stopChannel(M, c) ==
  IF ~M.registered[c] THEN "fulfilled:adapter"
  ELSE IF ~M.ad[c].status.running THEN "fulfilled:stopped"
  ELSE "doStop"

\* Promise.all in place of Promise.allSettled: one rejection rejects the
\* bulk call
allRejecting(C) ==
  IF \E c \in Chans : C[c] \in {"rejected:adapter", "rejected:config",
                                 "rejected:invalid", "rejected:doStart"}
  THEN "rejected" ELSE "resolved"

\* channel-manager.ts:168-170 and 191-193: Promise.allSettled resolves
\* whatever the calls it waits for did
allSettled(C) == "resolved"

Settled(C) == \A c \in Chans : C[c] \notin {"doStart", "doStop"}

\* channel-manager.ts:157-170: startAll() returns at once on a running
\* manager, and else calls startChannel for every configured channel
StartAll ==
  /\ ev' = [g |-> Null, k |-> "startAll", seq |-> NoSeq, d |-> <<>>]
  /\ mgr.ops < MaxOps
  /\ IF mgr.running
     THEN mgr' = [mgr EXCEPT !.ops = @ + 1, !.last = "noop"]
     ELSE /\ mgr.op = "none"
          /\ mgr' = [mgr EXCEPT
                 !.ops = @ + 1,
                 !.op = "startAll",
                 !.call = [c \in Chans |->
                             IF mgr.cfg[c] = "absent" THEN "none"
                             ELSE startChannel(mgr, c)],
                 !.ad = [c \in Chans |->
                           IF mgr.cfg[c] = "absent" THEN @[c]
                           ELSE startChannelAdapter(mgr, c)]]
  /\ UNCHANGED <<gwVars, status, adVars, lim, api, disp>>

\* base/adapter.ts:102-110 and channel-manager.ts:126-132: the doStart of
\* channel c settled
ChanStartSettled(c, ok) ==
  /\ ev' = [g |-> c, k |-> IF ok THEN "chanStarted" ELSE "chanStartFailed",
            seq |-> NoSeq, d |-> <<>>]
  /\ mgr.call[c] = "doStart"
  /\ mgr' = [mgr EXCEPT
         !.call[c] = IF ok THEN "fulfilled:started" ELSE "rejected:doStart",
         !.ad[c].status = IF ok THEN startSucceeded(@)
                          ELSE startFailed(@, "doStart")]
  /\ UNCHANGED <<gwVars, status, adVars, lim, api, disp>>

\* channel-manager.ts:168-178: every startChannel call settled
StartAllDone ==
  /\ ev' = [g |-> Null, k |-> "startAllDone", seq |-> NoSeq, d |-> <<>>]
  /\ mgr.op = "startAll"
  /\ Settled(mgr.call)
  /\ LET r == allSettled(mgr.call) IN
     mgr' = [mgr EXCEPT !.op = "none", !.last = r,
                        !.running = IF r = "resolved" THEN TRUE ELSE @]
  /\ UNCHANGED <<gwVars, status, adVars, lim, api, disp>>

\* channel-manager.ts:184-193: stopAll() returns at once on a manager that
\* is not running, and else calls stopChannel for every registered adapter
StopAll ==
  /\ ev' = [g |-> Null, k |-> "stopAll", seq |-> NoSeq, d |-> <<>>]
  /\ mgr.ops < MaxOps
  /\ IF ~mgr.running
     THEN mgr' = [mgr EXCEPT !.ops = @ + 1, !.last = "noop"]
     ELSE /\ mgr.op = "none"
          /\ mgr' = [mgr EXCEPT
                 !.ops = @ + 1,
                 !.op = "stopAll",
                 !.call = [c \in Chans |->
                             IF ~mgr.registered[c] THEN "none"
                             ELSE stopChannel(mgr, c)]]
  /\ UNCHANGED <<gwVars, status, adVars, lim, api, disp>>

\* base/adapter.ts:122-129 and channel-manager.ts:146-151: the doStop of
\* channel c settled; stopChannel catches a rejection
ChanStopSettled(c, ok) ==
  /\ ev' = [g |-> c, k |-> IF ok THEN "chanStopped" ELSE "chanStopFailed",
            seq |-> NoSeq, d |-> <<>>]
  /\ mgr.call[c] = "doStop"
  /\ mgr' = [mgr EXCEPT
         !.call[c] = IF ok THEN "fulfilled:stopped" ELSE "fulfilled:doStop",
         !.ad[c].status = IF ok THEN stopSucceeded(@) ELSE stopFailed(@)]
  /\ UNCHANGED <<gwVars, status, adVars, lim, api, disp>>

\* channel-manager.ts:191-196: every stopChannel call settled
StopAllDone ==
  /\ ev' = [g |-> Null, k |-> "stopAllDone", seq |-> NoSeq, d |-> <<>>]
  /\ mgr.op = "stopAll"
  /\ Settled(mgr.call)
  /\ LET r == allSettled(mgr.call) IN
     mgr' = [mgr EXCEPT !.op = "none", !.last = r,
                        !.running = IF r = "resolved" THEN FALSE ELSE @]
  /\ UNCHANGED <<gwVars, status, adVars, lim, api, disp>>

InitMgr == InitWith(0, Caps(0, 0, 0, 0))

NextMgr ==
  \/ \E c \in Chans, i \in 1 .. lim.regs : RegisterAdapter(c, i)
  \/ \E c \in Chans, kind \in ConfigKinds : ConfigChanged(c, kind)
  \/ StartAll
  \/ \E c \in Chans, ok \in BOOLEAN : ChanStartSettled(c, ok)
  \/ StartAllDone
  \/ StopAll
  \/ \E c \in Chans, ok \in BOOLEAN : ChanStopSettled(c, ok)
  \/ StopAllDone

SpecMgr == InitMgr /\ [][NextMgr]_vars

\* the manager with adapters registered again under an id in use; the
\* channels are configured with valid configs or not at all
InitReg ==
  InitWith(0, [Caps(0, 0, 0, 0) EXCEPT !.regs = MaxRegs])

NextReg ==
  \/ \E c \in Chans, i \in 1 .. lim.regs : RegisterAdapter(c, i)
  \/ \E c \in Chans : ConfigChanged(c, "valid")
  \/ StartAll
  \/ \E c \in Chans, ok \in BOOLEAN : ChanStartSettled(c, ok)
  \/ StartAllDone

SpecReg == InitReg /\ [][NextReg]_vars

(* ------------- ChannelManager: channels started one by one ------------ *)

\* no startChannel or stopChannel call is waiting for an adapter
NoCallWaits == \A c \in Chans : mgr.call[c] \notin {"doStart", "doStop"}

\* channel-manager.ts:98-126: startChannel(c) called directly, up to where
\* it returns, throws or waits for doStart
StartChannel(c) ==
  /\ ev' = [g |-> c, k |-> "startChannel", seq |-> NoSeq, d |-> <<>>]
  /\ mgr.ops < MaxOps
  /\ mgr.op = "none" /\ NoCallWaits
  /\ mgr' = [mgr EXCEPT !.ops = @ + 1,
                        !.call[c] = startChannel(mgr, c),
                        !.ad[c] = startChannelAdapter(mgr, c)]
  /\ UNCHANGED <<gwVars, status, adVars, lim, api, disp>>

\* channel-manager.ts:140-147: stopChannel(c) called directly, up to where
\* it returns or waits for doStop
StopChannel(c) ==
  /\ ev' = [g |-> c, k |-> "stopChannel", seq |-> NoSeq, d |-> <<>>]
  /\ mgr.ops < MaxOps
  /\ mgr.op = "none" /\ NoCallWaits
  /\ mgr' = [mgr EXCEPT !.ops = @ + 1, !.call[c] = stopChannel(mgr, c)]
  /\ UNCHANGED <<gwVars, status, adVars, lim, api, disp>>

\* channel-manager.ts:119-121 and 83-91, base/adapter.ts:172-182: the calls
\* of every subscriber of the manager for one message of adapter A. Each
\* handler the manager registered on the adapter calls the manager's
\* dispatchMessage, which calls every subscriber once.
deliveries(A) == A.n

\* base/adapter.ts:172-182: the running adapter of channel c dispatches an
\* inbound message; ev.seq is the number of calls of each subscriber of the
\* manager
ChanInbound(c) ==
  /\ ev' = [g |-> c, k |-> "inbound", seq |-> deliveries(mgr.ad[c]),
            d |-> <<>>]
  /\ mgr.registered[c]
  /\ mgr.ad[c].status.running
  /\ mgr.ad[c].status.inbound < MaxMsgs
  /\ mgr' = [mgr EXCEPT !.ad[c].status.inbound = @ + 1]
  /\ UNCHANGED <<gwVars, status, adVars, lim, api, disp>>

\* the manager with one adapter per channel and valid configs, its channels
\* started and stopped one by one and all at once
NextChan ==
  \/ \E c \in Chans : RegisterAdapter(c, 1)
  \/ \E c \in Chans : ConfigChanged(c, "valid")
  \/ \E c \in Chans : StartChannel(c)
  \/ \E c \in Chans : StopChannel(c)
  \/ NoCallWaits /\ StartAll
  \/ \E c \in Chans : ChanStartSettled(c, TRUE)
  \/ StartAllDone
  \/ NoCallWaits /\ StopAll
  \/ \E c \in Chans : ChanStopSettled(c, TRUE)
  \/ StopAllDone
  \/ \E c \in Chans : ChanInbound(c)

SpecChan == InitMgr /\ [][NextChan]_vars

(* ============================== claims ================================ *)

LiveSocks(g) == {s \in 1 .. Len(socks[g]) : socks[g][s].st \in Live}

\* the step armed a reconnect timer on gateway g
Scheduled(g) == Len(timers'[g]) = Len(timers[g]) + 1

\* the timer the step armed
Armed(g) == timers'[g][Len(timers'[g])]

\* the backoff schedule as the specification states it, in milliseconds
Schedule == <<1000, 2000, 5000, 10000, 30000>>

\* C1: a gateway object never has more than one live (connecting or open)
\* socket, whatever close, op 7, op 9, connect-failure and timer events
\* arrive while it runs.
C1_AtMostOneLiveSocket == \A g \in Gws : Cardinality(LiveSocks(g)) <= 1

\* C2: between stop() and the next start() the gateway creates no socket and
\* arms no reconnect timer.
C2_QuietWhileStopped ==
  [][\A g \in Gws :
       (~gw[g].isRunning /\ ~gw'[g].isRunning)
         => (Len(socks'[g]) = Len(socks[g]) /\ ~Scheduled(g))]_vars

\* C3: a reconnect timer that was pending when stop() was called never
\* starts a connection attempt, also after start() was called again.
C3_StaleTimerNeverConnects == \A g \in Gws : conns[g]["stale"] = 0

\* C4: a reconnect scheduled when the counter is n waits Schedule[min(n, 4)],
\* at most 30 s, and moves the counter to n + 1; the counter changes in no
\* other way than by a scheduling or a reset to zero.
C4_BackoffSchedule ==
  [][\A g \in Gws :
       LET n == gw[g].reconnectAttempts IN
       /\ Scheduled(g) =>
            /\ Armed(g).delay = Schedule[Min(n, 4) + 1]
            /\ Armed(g).delay <= 30000
            /\ gw'[g].reconnectAttempts = n + 1
       /\ gw'[g].reconnectAttempts # n =>
            \/ Scheduled(g) /\ gw'[g].reconnectAttempts = n + 1
            \/ gw'[g].reconnectAttempts = 0]_vars

\* C4 witness: the sixth scheduling in a row (n = 5) waited 30 s
C4_Witness ==
  /\ gw[1].reconnectAttempts = 6
  /\ Len(timers[1]) = 1
  /\ timers[1][1].delay = 30000

\* C5: the reconnect-attempt counter returns to zero only in the step that
\* handles a READY dispatch.
C5_ResetOnlyOnReady ==
  [][\A g \in Gws :
       (gw[g].reconnectAttempts > 0 /\ gw'[g].reconnectAttempts = 0)
         => ev'.k = "READY"]_vars

Ready ==
  /\ status.connected
  /\ gw[1].sessionId # Null
  /\ gw[1].ws # Null
  /\ socks[1][gw[1].ws].st = "open"
  /\ socks[1][gw[1].ws].ready

C10_StopAlwaysResets ==
  [][ev'.k \in {"stopped", "stopFailed"} =>
       (~status'.running /\ ~status'.connected)]_vars

\* C11: a stop() call on an adapter that is not running calls no doStop,
\* does not reject and leaves the whole status as it was; a stop() that ran
\* doStop to its end leaves the adapter not running, so that a second stop()
\* is such a call.
C11_StopIdempotent ==
  [][/\ (ev'.k \in {"stop", "doStop"} /\ ~status.running) =>
          /\ calls' = calls
          /\ status' = status
          /\ ret' = Ret("stop", "noop", NoError)
     /\ ev'.k = "stopped" => ~status'.running]_vars

\* C11 witness: a stop() returned without effect on an initialized adapter
\* that is not running, while its subclass reports a connection
C11_Witness ==
  /\ ev.k = "stop"
  /\ ret = Ret("stop", "noop", NoError)
  /\ ~status.running
  /\ status.connected
  /\ config # Null

\* C12: a sendMessage call on an adapter that is not running resolves to
\* a failure result with an error text, calls no doSendMessage and changes
\* no status field.
C12_SendWhileStopped ==
  [][(ev'.k \in {"send", "doSend"} /\ ~status.running) =>
       /\ ret'.op = "send" /\ ret'.res = "failure" /\ ret'.err # NoError
       /\ calls' = calls
       /\ status' = status]_vars

\* C12 witness: a sendMessage was refused on an adapter that had sent a
\* message before it was stopped
C12_Witness ==
  /\ ev.k = "send"
  /\ ret = Ret("send", "failure", "notRunning")
  /\ ~status.running
  /\ status.outbound = 1

C14_SendDiscardedAfterStop ==
  [][(ev'.k = "sent" /\ ~status.running) => status' = status]_vars

Invocations(h, m) ==
  Cardinality({i \in 1 .. Len(disp.log[h]) : disp.log[h][i] = m})

\* the dispatchMessage call of message m has returned
Dispatched(m) == m <= disp.msgs /\ \A d \in disp.run : d.msg # m

\* C15: no handler is invoked twice with one message; once the dispatch of a
\* message has returned, every handler that was registered when it began
\* has been invoked with it, whichever handlers threw; every dispatch that
\* began is in progress or has resolved; the inbound counter is the number
\* of messages dispatched.
C15_FanOutIsolation ==
  /\ \A h \in 1 .. MaxHandlers, m \in 1 .. MaxMsgs : Invocations(h, m) <= 1
  /\ \A m \in 1 .. MaxMsgs :
       Dispatched(m) => \A h \in 1 .. disp.at[m] : Invocations(h, m) = 1
  /\ disp.done + Cardinality(disp.run) = disp.msgs
  /\ status.inbound = disp.msgs

\* C15 witness: a message went to three handlers of which two threw, and
\* its dispatch resolved
C15_Witness ==
  /\ disp.at[1] = 3
  /\ Dispatched(1)
  /\ disp.caught = 2
  /\ disp.msgs = 1
  /\ \A h \in 1 .. 3 : disp.log[h] = <<1>>

\* C20: every handler is invoked with the messages in the order in which
\* they arrived.
C20_ArrivalOrder ==
  \A h \in 1 .. MaxHandlers :
    \A a, b \in 1 .. Len(disp.log[h]) :
      a < b => disp.log[h][a] < disp.log[h][b]

\* five minutes, in milliseconds
FiveMinutes == 5 * 60 * 1000

\* the cache holds an entry that is more than five minutes from its expiry
InWindow ==
  /\ api.tokenCache # NoCache
  /\ api.now < api.tokenCache.expiresAt - FiveMinutes

\* C17: a getAccessToken call returns the cached token, without an
\* exchange, exactly when an entry is cached and the clock is more than
\* five minutes before its expiry; otherwise it sends exactly one exchange.
\* A response is cached with the token it carries and the expiry now +
\* expires_in (7200 s when the response has none), and the cache changes in
\* no other step but clearTokenCache.
C17_TokenCache ==
  [][/\ ev'.k = "getToken" =>
          IF InWindow
          THEN /\ api'.last = [token |-> api.tokenCache.token, from |-> "cache"]
               /\ api'.exchanges = api.exchanges
               /\ api'.fetches = api.fetches
          ELSE /\ api'.last = api.last
               /\ api'.exchanges = api.exchanges + 1
               /\ api'.fetches = api.fetches + 1
     /\ ev'.k = "token" =>
          /\ api'.exchanges = api.exchanges
          /\ api'.tokenCache.token = api'.last.token
          /\ api'.last.from = "exchange"
          /\ api'.tokenCache.expiresAt =
               api.now + (IF api'.resp = NoExpiry THEN 7200 ELSE api'.resp) * 1000
     /\ api'.tokenCache # api.tokenCache => ev'.k \in {"token", "clearCache"}
    ]_vars

\* C17 witness: the second token, cached at 300 s with an expiry of 600 s,
\* was returned from the cache at 450 s, after two exchanges in all
C17_Witness ==
  /\ ev.k = "getToken"
  /\ api.last = [token |-> 2, from |-> "cache"]
  /\ api.exchanges = 2
  /\ api.fetches = 0
  /\ api.tokenCache = [token |-> 2, expiresAt |-> 900 * 1000]
  /\ api.now = 450 * 1000

\* C18: one API client never has more than one token exchange outstanding.
C18_OneExchangeInFlight == api.fetches <= 1

C21_SnapshotIsCopy ==
  [][ev'.k \in {"status", "mutate"} => status' = status]_vars

\* the entries of the registry under id c
Entries(M, c) == {p \in M.adapters : p.id = c}

\* C22: after registerAdapter of an adapter with id c, getAdapter(c) is
\* that adapter, the registry and getStatus() have exactly one entry for c,
\* and the entries and adapters of the other ids are as they were.
C22_LastRegistrationWins ==
  [][ev'.k = "registerAdapter" =>
       LET c == ev'.g IN
       /\ getAdapter(mgr', c) = ev'.seq
       /\ Cardinality(Entries(mgr', c)) = 1
       /\ c \in getChannelIds(mgr')
       /\ Cardinality({e \in getStatus(mgr') : e.id = c}) = 1
       /\ \A d \in Chans \ {c} :
            /\ Entries(mgr', d) = Entries(mgr, d)
            /\ mgr'.ad[d] = mgr.ad[d]]_vars

\* C22 witness: adapter 2 was registered under id 1 in place of adapter 1,
\* which a startAll had started; id 2 keeps its adapter
C22_Witness ==
  /\ ev = [g |-> 1, k |-> "registerAdapter", seq |-> 2, d |-> <<>>]
  /\ mgr.regs[1] = 2
  /\ mgr.adapters = {[id |-> 1, inst |-> 2], [id |-> 2, inst |-> 1]}
  /\ mgr.shelf[1][1].status.running
  /\ ~mgr.ad[1].status.running

\* the ids of an id list of a config, none when the list is left out
Listed(l) == {l.items[i] : i \in 1 .. Len(l.items)}

\* what the event of a step fails: the access-control check, by a policy
\* 'disabled' or by an allowlist the sender resp. the chat is not in, or
\* the mention a group message needs
FailsPolicy(cfg, e) ==
  \/ e.type = "dm" /\ cfg.dmPolicy = "disabled"
  \/ e.type = "group" /\ cfg.groupPolicy = "disabled"
  \/ e.type = "dm" /\ cfg.dmPolicy = "allowlist"
       /\ e.senderId \notin Listed(cfg.allowFrom)
  \/ e.type = "group" /\ cfg.groupPolicy = "allowlist"
       /\ e.chatId \notin Listed(cfg.groupAllowFrom)
  \/ e.type = "group" /\ cfg.requireMention # "false" /\ ~e.mentioned

\* C23: a Feishu event that fails the access-control check or lacks the
\* mention a group message needs is dropped before fan-out: no handler is
\* invoked, no dispatchMessage call is left waiting, no message is built,
\* and the status with its inbound counter is as it was.
C23_DroppedBeforeFanOut ==
  [][ev'.k = "feishu" /\ FailsPolicy(disp.access, ev'.d[1]) =>
       /\ disp'.log = disp.log
       /\ disp'.run = disp.run
       /\ disp'.delivered = disp.delivered
       /\ disp'.msgs = disp.msgs
       /\ status' = status]_vars

\* C24: a DM is delivered under dmPolicy 'allowlist' only if its sender is
\* in allowFrom, a group message under groupPolicy 'allowlist' only if its
\* chat is in groupAllowFrom, whatever the lists are (empty, left out).
C24_AllowlistMembership ==
  [][ev'.k = "feishu" /\ Len(disp'.delivered) > Len(disp.delivered) =>
       LET e == ev'.d[1] IN
       /\ e.type = "dm" /\ disp.access.dmPolicy = "allowlist"
            => e.senderId \in Listed(disp.access.allowFrom)
       /\ e.type = "group" /\ disp.access.groupPolicy = "allowlist"
            => e.chatId \in Listed(disp.access.groupAllowFrom)]_vars

\* the connect() call that failed in this step was the one start() awaits
FirstAttemptFailed ==
  /\ ev'.k = "connectFailed"
  /\ conns'[ev'.g]["adapter"] < conns[ev'.g]["adapter"]

\* C25: when the gateway-URL fetch (with its token exchange) is rejected in
\* the connect() that start() awaits, the adapter's start() rejects, with
\* lastError set and running false; when it is rejected in a later
\* connect() of a running gateway, a reconnect is scheduled and the
\* session is cleared.
C25_AuthRejection ==
  [][ev'.k = "connectFailed" =>
       LET g == ev'.g IN
       IF FirstAttemptFailed
       THEN /\ ~status'.running
            /\ status'.lastError # NoError
            /\ ret'.op = "start" /\ ret'.res = "rejected"
       ELSE gw[g].isRunning =>
              /\ Len(timers'[g]) = Len(timers[g]) + 1
              /\ gw'[g].sessionId = Null]_vars

\* the steps of a gateway that are fatal or trigger a reconnect: a failed
\* connect, a socket error, a close, op 7, op 9
Conditions == {"connectFailed", "error", "close", "op7", "op9"}

\* C26: after a failed connect, a socket error, a close, an op 7 or an op 9
\* on the running gateway of the adapter, status.lastError is not null, and
\* after a socket error it is that error.
C26_LastErrorReflects ==
  [][ev'.k \in Conditions /\ gw[ev'.g].isRunning /\ gw[ev'.g].wired =>
       /\ status'.lastError # NoError
       /\ ev'.k = "error" => status'.lastError = "socket"]_vars

\* socket s of gateway 1 had an error and has not closed yet
Erred(s) == s <= Len(socks[1]) /\ socks[1][s].st = "closing"

\* socket s of gateway 1 has closed
Gone(s) == s <= Len(socks[1]) /\ socks[1][s].st = "closed"

\* C27: a socket error on the running gateway calls onError (the adapter
\* records it in lastError) and changes no field of the gateway, isRunning
\* included; the socket closes after it, and the close of a socket of a
\* running gateway arms a reconnect timer.
C27_ErrorLeadsToReconnect ==
  /\ [][/\ ev'.k = "error" /\ gw[1].isRunning =>
             /\ status'.lastError = "socket"
             /\ gw' = gw /\ gw'[1].isRunning
        /\ ev'.k = "close" /\ gw[1].isRunning => Scheduled(1)]_vars
  /\ \A s \in 1 .. MaxFaults + 1 : Erred(s) ~> Gone(s)

\* C27 witness: the socket that had the error closed, the gateway still
\* runs and its reconnect timer is pending
C27_Witness ==
  /\ ev.k = "close"
  /\ status.lastError = "socket"
  /\ gw[1].isRunning
  /\ Gone(1)
  /\ Len(timers[1]) = 1
  /\ LiveSocks(1) = {}

\* C28: a frame that does not parse changes nothing: the gateway's fields
\* (socket, heartbeat timer, session id, lastSeq, attempt counter,
\* isRunning), its sockets, timers and pending calls, the adapter's status
\* and the subscribers' logs are as before, so no callback ran, no
\* reconnect was scheduled, and the frames that follow find the state they
\* would have found without it.
C28_UnparsableFrameDropped ==
  [][ev'.k = "unparsable" =>
       UNCHANGED <<gw, socks, timers, conns, hellos, intervals, status,
                   config, adGateway, nGw, calls, ret, lim, api, disp,
                   mgr>>]_vars

\* C28 witness: the frame arrived on the connection that is Ready, with its
\* heartbeat running and a sequence number recorded, and all that stands
C28_Witness ==
  /\ ev.k = "unparsable"
  /\ Ready
  /\ gw[1].isRunning
  /\ gw[1].heartbeatInterval
  /\ gw[1].lastSeq = MaxSeq
  /\ timers[1] = <<>>

\* the tags of the four message events: private (C2C) message created,
\* group-at message created, channel at-message created, direct message
\* created
C2C == "C2C_MESSAGE_CREATE"
GROUP_AT == "GROUP_AT_MESSAGE_CREATE"
AT == "AT_MESSAGE_CREATE"
DIRECT == "DIRECT_MESSAGE_CREATE"
KnownTags == {C2C, GROUP_AT, AT, DIRECT}

Discriminator(t) ==
  IF t = C2C THEN "c2c" ELSE IF t = GROUP_AT THEN "group"
  ELSE IF t = AT THEN "guild" ELSE "dm"

\* the id of the chat a frame's payload carries: the group or channel of a
\* group or channel message, the author of a private one
ChatOf(f) == IF f.t \in {GROUP_AT, AT} THEN f.place ELSE f.author

\* the instant an ISO timestamp denotes, in milliseconds
Millis(t) == 1000 * t

\* C30: an op 0 frame with one of the four known tags yields exactly one
\* InboundMessage, built from one event of the matching type, with the
\* payload's sender id, chat id, text and timestamp, counted once and
\* handed to the first subscriber.
C30_KnownTagDelivered ==
  [][ev'.k = "op0" /\ ev'.d[1].t \in KnownTags =>
       LET f == ev'.d[1]
           n == Len(disp'.delivered)
       IN /\ n = Len(disp.delivered) + 1
          /\ disp'.msgs = disp.msgs + 1
          /\ status'.inbound = status.inbound + 1
          /\ disp.n > 0 => Len(disp'.log[1]) = Len(disp.log[1]) + 1
          /\ disp'.delivered[n].raw.type = Discriminator(f.t)
          /\ disp'.delivered[n].senderId = f.author
          /\ disp'.delivered[n].chatId.id = ChatOf(f)
          /\ disp'.delivered[n].text = f.content
          /\ disp'.delivered[n].timestamp = Millis(f.timestamp)]_vars

\* a non-empty string
NonEmptyString(x) == x.type = "string" /\ x.v # ""

\* the field is present with a value
Present(x) == x.type # "undefined" /\ x.v # ""

\* C31: initialize of the QQ adapter succeeds for every config object with
\* a non-empty string appId and a non-empty clientSecret, and is rejected,
\* the stored config staying as it was, when appId is missing or no string
\* or when neither clientSecret nor clientSecretFile is present.
C31_ValidateConfig ==
  [][ev'.k = "initialize" =>
       LET c == ev'.d[1] IN
       /\ (c.type = "object" /\ NonEmptyString(c.appId)
             /\ NonEmptyString(c.clientSecret))
            => (ret'.res = "ok" /\ config' # Null)
       /\ (c.appId.type # "string"
             \/ (~Present(c.clientSecret) /\ ~Present(c.clientSecretFile)))
            => (ret'.res = "rejected" /\ config' = config)]_vars

\* the step is a reconnect timer of running gateway g firing: the next
\* connection attempt starts
AttemptStarts(g) ==
  /\ ev'.g = g /\ ev'.k = "timer"
  /\ gw[g].isRunning
  /\ conns'[g] # conns[g]

\* the step creates a socket on gateway g
SocketCreated(g) == ev'.g = g /\ Len(socks'[g]) = Len(socks[g]) + 1

\* C32: when the connection attempt of a scheduled reconnect starts, the
\* heartbeat timer is cleared and the socket reference released, and when
\* a socket is created no heartbeat timer of the gateway is active.
C32_TornDownBeforeReconnect ==
  [][\A g \in Gws :
       /\ AttemptStarts(g) =>
            (~gw[g].heartbeatInterval /\ gw[g].ws = Null)
       /\ SocketCreated(g) => intervals[g] = 0]_vars

\* the step ran stop() or cleanup() on gateway g
TornDown(g) == ev'.g = g /\ ev'.k \in {"stop", "stopped", "op7", "op9"}

\* the step resumed a handleHello of gateway g that was waiting for the
\* token when the step before ran stop() or cleanup() on g
ResumedAfterTeardown(g) ==
  /\ ev.g = g /\ ev.k \in {"stop", "stopped", "op7", "op9"}
  /\ ev'.g = g /\ ev'.k = "identify"

\* C33: a gateway never has more than one heartbeat timer; it has none
\* right after stop() or cleanup(), and a handleHello that was waiting for
\* the token when stop() or cleanup() ran starts none.
C33_OneHeartbeat ==
  /\ [](\A g \in Gws : intervals[g] <= 1)
  /\ [][\A g \in Gws :
          /\ TornDown(g) => intervals'[g] = 0
          /\ ResumedAfterTeardown(g) => intervals'[g] = 0]_vars

\* the step is the close of a socket of gateway g that cleanup() had
\* closed and released: the close an op 7 or op 9 teardown causes
TeardownClose(g) ==
  /\ ev'.g = g /\ ev'.k = "close"
  /\ \E s \in 1 .. Len(socks[g]) :
       /\ socks[g][s].st = "closing" /\ socks'[g][s].st = "closed"
       /\ gw[g].ws # s

\* the step armed one reconnect timer on g and counted one attempt
OneReconnect(g) ==
  /\ Scheduled(g)
  /\ gw'[g].reconnectAttempts = gw[g].reconnectAttempts + 1

\* C34: on a running gateway an op 7 or op 9 frame arms one reconnect timer
\* and counts one attempt, the close its teardown causes arms and counts
\* nothing more, and any other close arms one timer and counts one attempt.
C34_OneReconnectPerOccurrence ==
  [][\A g \in Gws :
       ev'.g = g /\ gw[g].isRunning =>
         /\ ev'.k \in {"op7", "op9"} => OneReconnect(g)
         /\ ev'.k = "close" =>
              IF TeardownClose(g)
              THEN /\ timers'[g] = timers[g]
                   /\ gw'[g].reconnectAttempts = gw[g].reconnectAttempts
              ELSE OneReconnect(g)]_vars

\* C35: on every connection Identify is sent only after its Hello, and the
\* heartbeat timer is started only by the handling of a Hello; the status
\* becomes connected only in the step that handles READY, which also sets
\* lastConnectedAt, and never in the step of a socket's open.
C35_HandshakeOrder ==
  /\ [](\A g \in Gws : \A s \in 1 .. Len(socks[g]) :
          socks[g][s].ident => socks[g][s].hello)
  /\ [][/\ \A g \in Gws :
            intervals'[g] > intervals[g] => (ev'.g = g /\ ev'.k = "identify")
        /\ status'.connected /\ ~status.connected =>
            (ev'.k = "READY" /\ status'.lastConnectedAt)
        /\ ev'.k = "open" => status' = status]_vars

\* the frames of the model that carry a sequence number and keep the session
SeqFrames == {"READY", "op11", "op7"}

\* C36: a heartbeat frame is sent only on an open socket and carries the
\* sequence number s >= 0 of the most recent inbound frame that had one:
\* the frame handled just before the heartbeat, if it had one, and in
\* general the tracked value, which every frame with a sequence number
\* replaces, an invalid session resets to null and nothing else changes.
C36_HeartbeatSeq ==
  [][\A g \in Gws :
       /\ (ev'.g = g /\ ev'.k = "op1") =>
            /\ wsOpen(g)
            /\ ev'.seq = gw[g].lastSeq
            /\ (ev.g = g /\ ev.k \in SeqFrames /\ ev.seq # NoSeq) =>
                 ev'.seq = ev.seq
       /\ IF ev'.g = g /\ ev'.k \in SeqFrames /\ ev'.seq # NoSeq
          THEN gw'[g].lastSeq = ev'.seq
          ELSE IF ev'.g = g /\ ev'.k = "op9"
               THEN gw'[g].lastSeq = NoSeq
               ELSE gw'[g].lastSeq = gw[g].lastSeq]_vars
\* the gateway objects that are running
Running == {g \in Gws : gw[g].isRunning}

\* a doStart whose start() has not returned yet
DoStartPending == \E g \in Gws : conns[g]["adapter"] > 0

\* C37: however start() calls interleave, doStart is not invoked while an
\* earlier doStart is pending or the adapter runs, so at most one gateway
\* object of the adapter is running at any time.
C37_OneDoStart ==
  /\ [](Cardinality(Running) <= 1)
  /\ [][ev'.k = "doStart" /\ nGw' > nGw =>
          ~DoStartPending /\ ~status.running /\ Running = {}]_vars
\* C38: across startChannel/stopChannel and startAll/stopAll cycles, one
\* inbound message of an adapter reaches each subscriber of the manager
\* exactly once.
C38_DeliveredOnce ==
  [][\A c \in Chans : (ev'.g = c /\ ev'.k = "inbound") => ev'.seq = 1]_vars

\* the adapters that are registered and running
RunningChans == {c \in Chans : mgr.registered[c] /\ mgr.ad[c].status.running}

\* C39: when stopAll() has returned, no registered adapter is running,
\* however it was started and whatever the manager's running flag was.
C39_StopAllStopsAll ==
  [][(ev'.k = "stopAllDone" \/ (ev'.k = "stopAll" /\ mgr'.op = "none"))
       => RunningChans' = {}]_vars
\* stop() of the adapter has completed and start() has not been called since
Stopped == nGw > 0 /\ adGateway = Null /\ ~status.running

\* C40: from the completion of stop() to the next start(), status.connected
\* is false and no inbound message is dispatched to the subscribers,
\* whichever callbacks of the stopped gateway fire late.
C40_QuietAfterStop ==
  /\ [](Stopped => ~status.connected)
  /\ [][(Stopped /\ Stopped') =>
          (status'.inbound = status.inbound /\ disp'.log = disp.log)]_vars
====
